---- MODULE Spec2Model ----
(***************************************************************************)
(* dc_graph.diagram (src/src/place_ports.js): the reconciliation of node   *)
(* and edge records onto long-lived wrappers, the snapshot comparison, and *)
(* the protocol around the cola layout engine (redraw, tick handler, end   *)
(* handler, time limit).                                                   *)
(***************************************************************************)
EXTENDS Integers, Sequences, FiniteSets, TLC

(***************************************************************************)
(* Bounds of the model.                                                    *)
(***************************************************************************)
\* redraw cycles (calls of render or redraw) explored
MaxCycle == 3
\* the clock Date.now() stops advancing here
MaxTime == 2
\* the per-cycle counters of 'end' dispatches and of draw calls saturate here
MaxCount == 2

(***************************************************************************)
(* Values.                                                                 *)
(***************************************************************************)
\* the JavaScript undefined and null
Undef == "undefined"
Null == "null"
Keys == {"a", "b"}
EdgeKeys == {"e", "f"}
\* the positions the engine can give a node (x and y alike)
Points == {"p0", "p1"}
\* where the engine puts a node that has no position when it starts
Center == "p0"

\* a node record {key, value} as nodeGroup().all() returns it; x and y are
\* what wrap_node reads from the record for a fixed node
NodeRec(k, v, f, p) == [key |-> k, value |-> v, fixed |-> f, x |-> p, y |-> p]
a1 == NodeRec("a", "1", "false", Undef)
aNaN == NodeRec("a", "NaN", "false", Undef)
aNull == NodeRec("a", Null, "false", Undef)
b1 == NodeRec("b", "1", "false", Undef)
bFixed == NodeRec("b", "1", "true", "p1")
\* JavaScript truthiness of a record field
Truthy(v) == v \notin {Undef, Null, "false", "NaN"}
\* an edge record, with the fields the default source, target and isLayout
\* accessors read
EdgeRecord(k, s, t, nl) == [key |-> k, sourcename |-> s, targetname |-> t, notLayout |-> nl]
EdgeRec(k, s, t) == EdgeRecord(k, s, t, Undef)
eAB == EdgeRec("e", "a", "b")
fBA == EdgeRec("f", "b", "a")
fAC == EdgeRec("f", "a", "c")
c1 == NodeRec("c", "1", "false", Undef)
d1 == NodeRec("d", "1", "false", Undef)
\* the order an ordering accessor that reads the key puts the keys in
KeyOrder == <<"a", "b", "c", "d", "e", "f", "g", "h">>
KeyRank(k) == CHOOSE i \in 1..Len(KeyOrder) : KeyOrder[i] = k

(***************************************************************************)
(* State.                                                                  *)
(***************************************************************************)
VARIABLES
    _nodes,             \* key -> node wrapper [id, orig, index, x, y, fixed]
    _edges,             \* key -> edge wrapper [id, orig, source, target]
    nodes1,             \* keys of the active node sequence bound to the node layer
    edges1,             \* keys of the active edge sequence bound to the edge layer
    _stats,
    _nodes_snapshot,
    _edges_snapshot,
    _d3cola,            \* id of the chart's engine, 0 while null
    engines,            \* id -> engine that can still call a handler, or is _d3cola
    rendered,           \* render() has built the layers
    layoutUnchanged,
    initLayoutOnRedraw,
    showLayoutSteps,
    timeLimit,
    induceNodes,
    nodeFixedAccessor,  \* TRUE: an accessor reading the record's fixed field; FALSE: null
    nodeOrdering,       \* null, or the name of the record field the accessor reads
    edgeOrdering,       \* null, or the name of the record field the accessor reads
    parallelEdgeOffset,
    constrain,          \* the callback: the constraint objects it returns, and whether
                        \* it builds them anew at every call
    now,                \* Date.now()
    cycle,              \* number of redraw cycles begun
    ends,               \* cycle -> number of 'end' dispatches made for it so far
    draws,              \* cycle -> number of draw calls made by its handlers so far
    closed,             \* the numbers of 'end' dispatches of the cycles that are over
    last,               \* the handler that ran last, the calls it made, in order, and
                        \* what it handed to the engine
    prev,               \* the records and setting of the preceding redraw call,
                        \* whether relayout() was called since, or is still to take
                        \* effect, and the node keys whose wrapper a redraw deleted,
                        \* and those whose wrapper a redraw made no longer fixed
    ports,              \* the ports of one node, as a call of place_ports finds and
                        \* leaves them
    sel,                \* a select_things behavior: its settings, _selected and
                        \* _oldSelected, the nodes of the diagram, and the handler
                        \* that ran last, with what it published
    names               \* the owner and name of a port, the string port_name makes
                        \* of them and what split_port_name makes of the string

vars == <<_nodes, _edges, nodes1, edges1, _stats, _nodes_snapshot, _edges_snapshot,
          _d3cola, engines, rendered, layoutUnchanged, initLayoutOnRedraw,
          showLayoutSteps, timeLimit, induceNodes, nodeFixedAccessor, nodeOrdering,
          edgeOrdering, parallelEdgeOffset, constrain, now, cycle, ends, draws, closed,
          last, prev, ports, sel, names>>

config == <<initLayoutOnRedraw, showLayoutSteps, timeLimit, induceNodes, nodeFixedAccessor,
            nodeOrdering, edgeOrdering, parallelEdgeOffset>>
graph == <<_nodes, _edges, nodes1, edges1, _stats>>
snapshots == <<_nodes_snapshot, _edges_snapshot>>

EmptyMap == [k \in {} |-> Undef]
Restrict(f, S) == [k \in DOMAIN f \cap S |-> f[k]]
SeqKeys(s) == {s[i].key : i \in 1..Len(s)}
Bump(n) == IF n < MaxCount THEN n + 1 ELSE MaxCount

(***************************************************************************)
(* JSON.stringify of a sequence of records: NaN is written as null, and a  *)
(* field that is undefined is left out.                                    *)
(***************************************************************************)
JSONField(r, f) == IF r[f] = "NaN" THEN Null ELSE r[f]
JSONRecord(r) == {<<f, JSONField(r, f)>> : f \in {g \in DOMAIN r : r[g] # Undef}}
Stringify(s) == [i \in 1..Len(s) |-> JSONRecord(s[i])]

(***************************************************************************)
(* redraw: reconciliation.                                                 *)
(***************************************************************************)
\* the nodes that remain when induceNodes is set: those some edge names
InduceFilter(nodes, edges) ==
    IF induceNodes
    THEN LET keeps == {edges[i].sourcename : i \in 1..Len(edges)}
                      \cup {edges[i].targetname : i \in 1..Len(edges)}
         IN  SelectSeq(nodes, LAMBDA n : n.key \in keeps)
    ELSE nodes

\* a wrap_node that puts every node it wraps back at the centre
WrapNodeMutant(map, v, i, c) ==
    LET v0 == IF v.key \in DOMAIN map
              THEN map[v.key]
              ELSE [id |-> c, orig |-> Undef, index |-> Undef, x |-> Undef, y |-> Undef,
                    fixed |-> Undef]
    IN  [v0 EXCEPT !.orig = v, !.index = i, !.x = Center, !.y = Center, !.fixed = FALSE]

\* crossfilter.quicksort.by(f) on a short array: an insertion sort, ascending in
\* the rank of the field the accessor reads, equal ranks staying in their order
RECURSIVE SortBy(_, _)
SortBy(s, f) ==
    IF s = <<>>
    THEN <<>>
    ELSE LET n == Len(s)
             t == SortBy(SubSeq(s, 1, n - 1), f)
             x == KeyRank(s[n][f])
             j == Cardinality({i \in 1..Len(t) : KeyRank(t[i][f]) <= x})
         IN  SubSeq(t, 1, j) \o <<s[n]>> \o SubSeq(t, j + 1, Len(t))

\* the records left in input order whatever the ordering
InputOrder(s, ordering) == s

\* the records in the order redraw works on them
Ordered(s, ordering) == IF ordering = Null THEN s ELSE SortBy(s, ordering)

\* a wrap_node under which a node once fixed stays fixed
WrapNodeSticky(map, v, i, c) ==
    LET v0 == IF v.key \in DOMAIN map
              THEN map[v.key]
              ELSE [id |-> c, orig |-> Undef, index |-> Undef, x |-> Undef, y |-> Undef,
                    fixed |-> Undef]
        fixed == IF nodeFixedAccessor THEN v.fixed ELSE Undef
    IN  IF Truthy(fixed)
        THEN [v0 EXCEPT !.orig = v, !.index = i, !.x = v.x, !.y = v.y, !.fixed = TRUE]
        ELSE [v0 EXCEPT !.orig = v, !.index = i,
                        !.fixed = IF v.key \in DOMAIN map THEN map[v.key].fixed ELSE FALSE]

\* the wrapper wrap_node leaves in the map for record v at position i (0-based);
\* a wrapper created in cycle c is the object c of its key
wrap_node(map, v, i, c) ==
    LET v0 == IF v.key \in DOMAIN map
              THEN map[v.key]
              ELSE [id |-> c, orig |-> Undef, index |-> Undef, x |-> Undef, y |-> Undef,
                    fixed |-> Undef]
        fixed == IF nodeFixedAccessor THEN v.fixed ELSE Undef
    IN  IF Truthy(fixed)
        THEN [v0 EXCEPT !.orig = v, !.index = i, !.x = v.x, !.y = v.y, !.fixed = TRUE]
        ELSE [v0 EXCEPT !.orig = v, !.index = i, !.fixed = FALSE]

\* nodes.map(wrap_node): the node map after the records from position i on are wrapped
RECURSIVE WrapNodes(_, _, _, _)
WrapNodes(map, nodes, i, c) ==
    IF i > Len(nodes)
    THEN map
    ELSE LET v1 == wrap_node(map, nodes[i], i - 1, c)
         IN  WrapNodes([k \in DOMAIN map \cup {nodes[i].key} |->
                            IF k = nodes[i].key THEN v1 ELSE map[k]],
                       nodes, i + 1, c)

\* a sweep that deletes nothing
SweepNodesMutant(map, nodes) == map

\* the sweep of _nodes: only the keys wrap_node marked in keep_node stay
SweepNodes(map, nodes) == Restrict(map, SeqKeys(nodes))

\* the sweep of _edges, which runs before any edge is wrapped: keep_edge is
\* still empty, so no key stays
SweepEdges(map) == Restrict(map, {})

\* the wrapper wrap_edge leaves in the map for record e; source and target are
\* the node wrappers of the map at that time (by key and object), or undefined
NoRef == <<>>
\* the parallel property of an edge wrapper that was never marked
NoParallel == <<>>
NodeRef(nmap, k) == IF k \in DOMAIN nmap THEN <<k, nmap[k].id>> ELSE NoRef

wrap_edge(emap, nmap, e, c) ==
    LET e0 == IF e.key \in DOMAIN emap
              THEN emap[e.key]
              ELSE [id |-> c, orig |-> Undef, source |-> NoRef, target |-> NoRef,
                    parallel |-> NoParallel]
    IN  [e0 EXCEPT !.orig = e,
                   !.source = NodeRef(nmap, e.sourcename),
                   !.target = NodeRef(nmap, e.targetname)]

RECURSIVE WrapEdges(_, _, _, _, _)
WrapEdges(emap, nmap, edges, i, c) ==
    IF i > Len(edges)
    THEN emap
    ELSE LET e1 == wrap_edge(emap, nmap, edges[i], c)
         IN  WrapEdges([k \in DOMAIN emap \cup {edges[i].key} |->
                            IF k = edges[i].key THEN e1 ELSE emap[k]],
                       nmap, edges, i + 1, c)

\* edges.map(wrap_edge).filter(...): the records whose wrapper has both ends
ActiveEdges(emap, edges) ==
    SelectSeq(edges, LAMBDA e : emap[e.key].source # NoRef /\ emap[e.key].target # NoRef)

(***************************************************************************)
(* The layout engine (cola.d3adaptor), by its interface: start, stop, a    *)
(* tick callback and an end callback.  An engine is idle, running, or      *)
(* stopped: stop() was called while it ran, it iterates no more, and it    *)
(* may still deliver its end event.                                        *)
(***************************************************************************)
\* startTime of a redraw that returned on the skip path: never assigned
NoTime == <<>>
\* initLayout: a new engine, with no handler registered
NewEngine == [status |-> "idle", nodes |-> {}, tick |-> 0, start |-> NoTime, end |-> 0]

Stop(e) == IF e.status = "running" THEN [e EXCEPT !.status = "stopped"] ELSE e

\* the engines that matter: the chart's, and those that can still call a handler
Live(engs, cola) == Restrict(engs, {i \in DOMAIN engs : i = cola \/ engs[i].status # "idle"})

\* a handler of cycle c can still be called: the tick handler by an engine that
\* runs, the end handler by one that runs or was stopped
Open(engs, c) ==
    \E i \in DOMAIN engs :
        \/ engs[i].status = "running" /\ (engs[i].tick = c \/ engs[i].end = c)
        \/ engs[i].status = "stopped" /\ engs[i].end = c

\* the counters are kept for the current cycle and for the open ones
Kept(f, engs, cyc) == {c \in DOMAIN f : c = cyc \/ Open(engs, c)}

\* the node array handed to an engine: the wrappers of the active sequence
NodeArray(nmap, nodes) == {NodeRef(nmap, nodes[i].key) : i \in 1..Len(nodes)}

\* start(): a node without a position is put at the centre
StartPositions(nmap) ==
    [k \in DOMAIN nmap |->
        [nmap[k] EXCEPT !.x = IF @ = Undef THEN Center ELSE @,
                        !.y = IF @ = Undef THEN Center ELSE @]]

\* one iteration: the engine moves the nodes of its array that are not fixed
Iterate(nmap, e, p) ==
    [k \in DOMAIN nmap |->
        IF NodeRef(nmap, k) \in e.nodes /\ ~nmap[k].fixed
        THEN [nmap[k] EXCEPT !.x = p, !.y = p]
        ELSE nmap[k]]

(***************************************************************************)
(* redraw: the snapshot comparison.                                        *)
(***************************************************************************)
\* a snapshot variable holds undefined (never assigned), null (relayout) or a string
NoSnapshot == [kind |-> Undef, text |-> <<>>]
NullSnapshot == [kind |-> Null, text |-> <<>>]
Snapshot(s) == [kind |-> "string", text |-> Stringify(s)]

\* a comparison made when layoutUnchanged is set, and one made whatever it is
SkipWhenSet(nodes, edges) ==
    /\ layoutUnchanged
    /\ Snapshot(nodes) = _nodes_snapshot
    /\ Snapshot(edges) = _edges_snapshot
SkipWhateverSet(nodes, edges) ==
    /\ Snapshot(nodes) = _nodes_snapshot
    /\ Snapshot(edges) = _edges_snapshot

skip_layout(nodes, edges) ==
    /\ ~layoutUnchanged
    /\ Snapshot(nodes) = _nodes_snapshot
    /\ Snapshot(edges) = _edges_snapshot

(***************************************************************************)
(* redraw: parallel edges.                                                 *)
(***************************************************************************)
\* the matrix em, all zero, for n nodes
ZeroMatrix(n) == [ij \in (0..(n - 1)) \X (0..(n - 1)) |-> 0]
Min(a, b) == IF a < b THEN a ELSE b
Max(a, b) == IF a < b THEN b ELSE a

\* a marking that counts the edges from a to b apart from those from b to a
RECURSIVE MarkParallelDirected(_, _, _, _, _)
MarkParallelDirected(emap, nmap, active, i, em) ==
    IF i > Len(active)
    THEN emap
    ELSE LET e == emap[active[i].key]
             ij == <<nmap[e.source[1]].index, nmap[e.target[1]].index>>
         IN  MarkParallelDirected([emap EXCEPT ![active[i].key].parallel = <<em[ij]>>],
                                  nmap, active, i + 1, [em EXCEPT ![ij] = @ + 1])

\* edges1.forEach(e.parallel = em[min][max]++), from position i on
RECURSIVE MarkParallel(_, _, _, _, _)
MarkParallel(emap, nmap, active, i, em) ==
    IF i > Len(active)
    THEN emap
    ELSE LET e == emap[active[i].key]
             si == nmap[e.source[1]].index
             ti == nmap[e.target[1]].index
             ij == <<Min(si, ti), Max(si, ti)>>
         IN  IF ij \in DOMAIN em
             THEN MarkParallel([emap EXCEPT ![active[i].key].parallel = <<em[ij]>>],
                               nmap, active, i + 1, [em EXCEPT ![ij] = @ + 1])
             \* a cell outside the matrix is undefined, and ++ makes it NaN
             ELSE MarkParallel([emap EXCEPT ![active[i].key].parallel = <<"NaN">>],
                               nmap, active, i + 1, em)

(***************************************************************************)
(* redraw: the constraints.  A node is named by its key in what constrain  *)
(* returns and by its index, a number, in what the engine is handed; the   *)
(* number i is written as the numeral ToString(i), which is also the       *)
(* property name the number stands for in _nodes[i].                       *)
(***************************************************************************)
IndexRef(i) == ToString(i)

\* translating the references refs in turn: the position of the first that
\* names no wrapper (there _nodes[r].index throws), or 0
FirstBad(nmap, refs) ==
    IF \E j \in 1..Len(refs) : refs[j] \notin DOMAIN nmap
    THEN CHOOSE j \in 1..Len(refs) :
            /\ refs[j] \notin DOMAIN nmap
            /\ \A h \in 1..(j - 1) : refs[h] \in DOMAIN nmap
    ELSE 0

\* a translation to the rank of the key instead of the wrapper's index
TranslatedByRank(nmap, r, j, bad) ==
    IF bad = 0 \/ j < bad THEN IndexRef(KeyRank(r) - 1) ELSE r

\* the reference r after the loop that stopped at position bad (0: ran through)
Translated(nmap, r, j, bad) ==
    IF bad = 0 \/ j < bad THEN IndexRef(nmap[r].index) ELSE r

\* the node references a constraint has that the translation replaces
Refs(c) ==
    IF Truthy(c.type)
    THEN IF c.type = "alignment"
         THEN [j \in 1..Len(c.offsets) |-> c.offsets[j].node]
         ELSE IF c.type = "circle"
              THEN [j \in 1..Len(c.nodes) |-> c.nodes[j].node]
              ELSE <<>>
    ELSE IF Truthy(c.axis) THEN <<c.left, c.right>> ELSE <<>>

\* the constraint object after its part of the translation loop
TranslateOne(nmap, c) ==
    LET bad == FirstBad(nmap, Refs(c))
    IN  IF Truthy(c.type)
        THEN IF c.type = "alignment"
             THEN [c EXCEPT !.offsets = [j \in 1..Len(c.offsets) |->
                        [c.offsets[j] EXCEPT !.node = Translated(nmap, @, j, bad)]]]
             ELSE IF c.type = "circle"
                  THEN [c EXCEPT !.nodes = [j \in 1..Len(c.nodes) |->
                             [c.nodes[j] EXCEPT !.node = Translated(nmap, @, j, bad)]]]
                  ELSE c
        ELSE IF Truthy(c.axis)
             THEN [c EXCEPT !.left = Translated(nmap, @, 1, bad),
                            !.right = Translated(nmap, @, 2, bad)]
             ELSE c

\* the position of the first constraint whose translation throws, or 0
FirstThrow(nmap, cs) ==
    IF \E i \in 1..Len(cs) : FirstBad(nmap, Refs(cs[i])) # 0
    THEN CHOOSE i \in 1..Len(cs) :
            /\ FirstBad(nmap, Refs(cs[i])) # 0
            /\ \A h \in 1..(i - 1) : FirstBad(nmap, Refs(cs[h])) = 0
    ELSE 0

\* constraints.forEach(translate): the objects as the loop leaves them
Translate(nmap, cs) ==
    LET t == FirstThrow(nmap, cs)
    IN  [i \in 1..Len(cs) |-> IF t = 0 \/ i <= t THEN TranslateOne(nmap, cs[i]) ELSE cs[i]]

(***************************************************************************)
(* redraw: the links and constraints for the engine.                       *)
(***************************************************************************)
\* every active edge taken for a layout edge
AllEdgesLaidOut(active) == active

\* edges1.filter(edgeIsLayoutAccessor): by default, the edges not marked notLayout
LayoutEdges(active) == SelectSeq(active, LAMBDA e : ~Truthy(e.notLayout))

NoInternal == [sourcename |-> Undef, targetname |-> Undef, distance |-> <<>>]
\* a link: an edge wrapper, or an object made for a wheel edge
EdgeLink(emap, e) ==
    [key |-> e.key, source |-> emap[e.key].source, target |-> emap[e.key].target,
     internal |-> NoInternal]

\* the radius of a circle constraint, (distance || baseLength*4) / (2 sin(pi/n)),
\* by the two numbers it is computed from
Radius(c) == <<IF Truthy(c.distance) THEN c.distance ELSE "baseLength*4", Len(c.nodes)>>

\* namef: the key of the node at index i of nodes1
NameOfIndex(nodes, i) == nodes[CHOOSE j \in 1..Len(nodes) : IndexRef(j - 1) = i].key

\* dc_graph.wheel_edges: a closed cycle of edges over the nodes in the given
\* order, each with its own distance
wheel_edges(nodes, nindices, R) ==
    LET n == Len(nindices)
    IN  [j \in 1..n |->
            [sourcename |-> NameOfIndex(nodes, nindices[j]),
             targetname |-> NameOfIndex(nodes, nindices[(j % n) + 1]),
             distance |-> <<"rim">> \o R]]

\* the links made for one circle constraint
WheelLinks(nmap, nodes, c) ==
    LET w == wheel_edges(nodes, [j \in 1..Len(c.nodes) |-> c.nodes[j].node], Radius(c))
    IN  [j \in 1..Len(w) |->
            [key |-> Undef, source |-> NodeRef(nmap, w[j].sourcename),
             target |-> NodeRef(nmap, w[j].targetname), internal |-> w[j]]]

\* circle_constraints.forEach(layout_edges = layout_edges.concat(wheel))
RECURSIVE CircleLinks(_, _, _, _)
CircleLinks(nmap, nodes, cs, i) ==
    IF i > Len(cs)
    THEN <<>>
    ELSE (IF cs[i].type = "circle" THEN WheelLinks(nmap, nodes, cs[i]) ELSE <<>>)
         \o CircleLinks(nmap, nodes, cs, i + 1)

\* an ordering constraint names a key that has no wrapper: sorting throws
OrderingThrows(nmap, cs) ==
    \E i \in 1..Len(cs) :
        cs[i].type = "ordering" /\ \E j \in 1..Len(cs[i].nodes) : cs[i].nodes[j] \notin DOMAIN nmap

\* a reduction to one gap constraint for every pair of the sorted sequence
GapAllPairs(nmap, c) ==
    LET sorted == SortBy([j \in 1..Len(c.nodes) |-> nmap[c.nodes[j]].orig], c.ordering)
        pair(j, h) == [type |-> Undef, axis |-> c.axis, gap |-> c.gap,
                       left |-> IndexRef(nmap[sorted[j].key].index),
                       right |-> IndexRef(nmap[sorted[h].key].index)]
    IN  [j \in 1..(Len(sorted) - 1) |-> pair(j, j + 1)]
        \o [j \in 1..(Len(sorted) - 2) |-> pair(j, j + 2)]

\* the gap constraints pushed for one ordering constraint: one for each node of
\* the sorted sequence but the first, from the node before it
GapChain(nmap, c) ==
    LET sorted == SortBy([j \in 1..Len(c.nodes) |-> nmap[c.nodes[j]].orig], c.ordering)
    IN  [j \in 1..(Len(sorted) - 1) |->
            [type |-> Undef, axis |-> c.axis, gap |-> c.gap,
             left |-> IndexRef(nmap[sorted[j].key].index),
             right |-> IndexRef(nmap[sorted[j + 1].key].index)]]

RECURSIVE OrderingGaps(_, _, _)
OrderingGaps(nmap, cs, i) ==
    IF i > Len(cs)
    THEN <<>>
    ELSE (IF cs[i].type = "ordering" THEN GapChain(nmap, cs[i]) ELSE <<>>)
         \o OrderingGaps(nmap, cs, i + 1)

\* the constraints for the engine: those that are neither circle nor ordering,
\* then the gap constraints of the ordering constraints
\* a constraint list that still holds the circle constraints
KeepCircles(nmap, cs) ==
    SelectSeq(cs, LAMBDA c : c.type # "ordering") \o OrderingGaps(nmap, cs, 1)

EngineConstraints(nmap, cs) ==
    SelectSeq(cs, LAMBDA c : c.type \notin {"circle", "ordering"}) \o OrderingGaps(nmap, cs, 1)

(***************************************************************************)
(* redraw, from the stop of the engine in flight to the start of the next  *)
(* run; cola0 and engs0 are the engine state redraw finds, pre the calls   *)
(* render made before it.                                                  *)
(***************************************************************************)
\* statistics that count an edge for every node
StatsPerNode(nodes, edges) == [nnodes |-> Len(nodes), nedges |-> Len(nodes)]

\* _stats = {nnodes: nodes1.length, nedges: edges1.length}
Stats(nodes, edges) == [nnodes |-> Len(nodes), nedges |-> Len(edges)]

\* _chart.getStats
getStats == _stats

DoRedraw(nodes, edges, cola0, engs0, pre) ==
    LET c == cycle + 1
        engs1 == IF cola0 # 0 THEN [engs0 EXCEPT ![cola0] = Stop(@)] ELSE engs0
        cola == IF initLayoutOnRedraw THEN c ELSE cola0
        engs2 == IF initLayoutOnRedraw THEN (c :> NewEngine) @@ engs1 ELSE engs1
        kept == Ordered(InduceFilter(nodes, edges), nodeOrdering)
        ordered == Ordered(edges, edgeOrdering)
        nmap == SweepNodes(WrapNodes(_nodes, kept, 1, c), kept)
        emap0 == WrapEdges(SweepEdges(_edges), nmap, ordered, 1, c)
        active == ActiveEdges(emap0, ordered)
        skip == skip_layout(kept, active)
        emap == IF parallelEdgeOffset # 0
                THEN MarkParallel(emap0, nmap, active, 1, ZeroMatrix(Len(kept)))
                ELSE emap0
        \* the translation throws, or the sort of an ordering constraint does
        translated == Translate(nmap, constrain.objects)
        thrown1 == FirstThrow(nmap, constrain.objects) # 0
        thrown2 == ~thrown1 /\ OrderingThrows(nmap, translated)
        thrown == thrown1 \/ thrown2
        layout_edges == LayoutEdges(active)
        links == [i \in 1..Len(layout_edges) |-> EdgeLink(emap, layout_edges[i])]
                 \o CircleLinks(nmap, kept, translated, 1)
        calls == pre \o (IF cola0 # 0 THEN <<"stop">> ELSE <<>>)
                     \o (IF initLayoutOnRedraw THEN <<"initLayout">> ELSE <<>>)
        engs3 == Live([engs2 EXCEPT ![cola] =
                          IF thrown1
                          THEN @
                          ELSE IF thrown2 \/ skip
                          THEN [@ EXCEPT !.tick = c, !.start = NoTime]
                          ELSE [status |-> "running", nodes |-> NodeArray(nmap, kept),
                                tick |-> c, start |-> <<now>>, end |-> c]],
                      cola)
        ends1 == (c :> (IF skip /\ ~thrown THEN 1 ELSE 0)) @@ ends
        started == ~skip /\ ~thrown
        \* the records are those of the preceding redraw; relayout() forces a layout
        same == cycle >= 1 /\ nodes = prev.nodes /\ edges = prev.edges
        forced == ~layoutUnchanged /\ prev.pending
    IN  /\ cycle' = c
        /\ _nodes' = IF skip \/ thrown THEN nmap ELSE StartPositions(nmap)
        /\ _edges' = emap
        /\ nodes1' = [i \in 1..Len(kept) |-> kept[i].key]
        /\ edges1' = [i \in 1..Len(active) |-> active[i].key]
        /\ _stats' = Stats(kept, active)
        /\ _nodes_snapshot' = IF layoutUnchanged THEN _nodes_snapshot ELSE Snapshot(kept)
        /\ _edges_snapshot' = IF layoutUnchanged THEN _edges_snapshot ELSE Snapshot(active)
        /\ constrain' = IF constrain.fresh
                         THEN constrain
                         ELSE [constrain EXCEPT !.objects = translated]
        /\ _d3cola' = cola
        /\ engines' = engs3
        /\ ends' = Restrict(ends1, Kept(ends1, engs3, c))
        /\ draws' = Restrict((c :> 0) @@ draws, Kept(ends1, engs3, c))
        /\ closed' = closed \cup {ends1[d] : d \in DOMAIN ends1 \ Kept(ends1, engs3, c)}
        /\ last' = [op |-> "redraw", cyc |-> c, elapsed |-> NoTime,
                    out |-> calls \o (IF thrown THEN <<"TypeError">>
                                      ELSE IF skip THEN <<"end">> ELSE <<"start">>),
                    draws |-> 0, ends |-> ends1[c],
                    swept |-> (DOMAIN _nodes \ DOMAIN nmap) \cup (DOMAIN _edges \ DOMAIN emap),
                    forced |-> IF forced
                               THEN (IF same THEN "same" ELSE "changed")
                               ELSE IF last.op = "redraw" /\ last.forced = "same" /\ same
                                    THEN "after"
                                    ELSE "no",
                    links |-> IF started THEN links ELSE <<>>,
                    constraints |-> IF started
                                    THEN EngineConstraints(nmap, translated)
                                    ELSE <<>>]
        /\ prev' = [nodes |-> nodes, edges |-> edges, layoutUnchanged |-> layoutUnchanged,
                    relayout |-> FALSE, pending |-> layoutUnchanged /\ prev.pending,
                    gone |-> prev.gone \cup (DOMAIN _nodes \ DOMAIN nmap),
                    unfixed |-> prev.unfixed \cup
                                {k \in DOMAIN _nodes \cap DOMAIN nmap :
                                    _nodes[k].fixed = TRUE /\ nmap[k].fixed = FALSE}]

\* _chart.redraw; render() must have been called the first time
Redraw(nodes, edges) ==
    /\ rendered
    /\ cycle < MaxCycle
    /\ DoRedraw(nodes, edges, _d3cola, engines, <<>>)
    /\ UNCHANGED <<rendered, layoutUnchanged, config, ports, sel, names, now>>

\* _chart.render: initLayout unless initLayoutOnRedraw, new layers, then redraw
Render(nodes, edges) ==
    /\ cycle < MaxCycle
    /\ IF initLayoutOnRedraw
       THEN DoRedraw(nodes, edges, _d3cola, engines, <<"resetSvg">>)
       ELSE DoRedraw(nodes, edges, cycle + 1, (cycle + 1 :> NewEngine) @@ engines,
                     <<"initLayout", "resetSvg">>)
    /\ rendered' = TRUE
    /\ UNCHANGED <<layoutUnchanged, config, ports, sel, names, now>>

(***************************************************************************)
(* The handlers redraw registers on the engine.                            *)
(***************************************************************************)
\* a time limit that is never found exceeded
NeverExceeded(e) == FALSE

\* elapsed = Date.now() - startTime, or NaN when startTime is undefined
Elapsed(e) == IF e.start = NoTime THEN NoTime ELSE <<now - e.start[1]>>
\* the tick handler's test of the time limit
TimeExceeded(e) ==
    timeLimit # 0 /\ Elapsed(e) # NoTime /\ Elapsed(e)[1] > timeLimit
\* a tick handler that draws whatever showLayoutSteps is
TickDrawsAlways == TRUE
\* whether the tick handler draws, and whether the end handler does
TickDraws == showLayoutSteps
EndDraws == ~showLayoutSteps

\* the engine i iterates once (moving its nodes to p) and calls its tick handler,
\* which stops _d3cola and dispatches 'end' when the time limit is exceeded
Tick(i, p) ==
    /\ i \in DOMAIN engines
    /\ engines[i].status = "running"
    /\ LET e == engines[i]
           c == e.tick
           engs1 == IF TimeExceeded(e)
                    THEN Live([engines EXCEPT ![_d3cola] = Stop(@)], _d3cola)
                    ELSE engines
           ends1 == IF TimeExceeded(e) THEN [ends EXCEPT ![c] = Bump(@)] ELSE ends
           draws1 == IF TickDraws THEN [draws EXCEPT ![c] = Bump(@)] ELSE draws
       IN  /\ _nodes' = Iterate(_nodes, e, p)
           /\ engines' = engs1
           /\ ends' = Restrict(ends1, Kept(ends1, engs1, cycle))
           /\ draws' = Restrict(draws1, Kept(ends1, engs1, cycle))
           /\ closed' = closed \cup {ends1[d] : d \in DOMAIN ends1 \ Kept(ends1, engs1, cycle)}
           /\ last' = [op |-> "tick", cyc |-> c, elapsed |-> Elapsed(e),
                       out |-> (IF TickDraws THEN <<"draw">> ELSE <<>>)
                               \o (IF TimeExceeded(e) THEN <<"stop", "end">> ELSE <<>>),
                       draws |-> draws1[c], ends |-> ends1[c], swept |-> {},
                       forced |-> "no",
                       links |-> <<>>, constraints |-> <<>>]
    /\ UNCHANGED <<_edges, nodes1, edges1, _stats, snapshots, _d3cola, rendered,
                   layoutUnchanged, config, ports, sel, names, constrain, now, cycle, prev>>

\* the engine i delivers its end event (it converged, or it was stopped) and
\* calls its end handler
End(i) ==
    /\ i \in DOMAIN engines
    /\ engines[i].status \in {"running", "stopped"}
    /\ LET e == engines[i]
           c == e.end
           engs1 == Live([engines EXCEPT ![i].status = "idle"], _d3cola)
           ends1 == [ends EXCEPT ![c] = Bump(@)]
           draws1 == IF EndDraws THEN [draws EXCEPT ![c] = Bump(@)] ELSE draws
       IN  /\ engines' = engs1
           /\ ends' = Restrict(ends1, Kept(ends1, engs1, cycle))
           /\ draws' = Restrict(draws1, Kept(ends1, engs1, cycle))
           /\ closed' = closed \cup {ends1[d] : d \in DOMAIN ends1 \ Kept(ends1, engs1, cycle)}
           /\ last' = [op |-> IF e.status = "running" THEN "end" ELSE "end after stop",
                       cyc |-> c, elapsed |-> NoTime,
                       out |-> (IF EndDraws THEN <<"draw">> ELSE <<>>) \o <<"end">>,
                       draws |-> draws1[c], ends |-> ends1[c], swept |-> {},
                       forced |-> "no",
                       links |-> <<>>, constraints |-> <<>>]
    /\ UNCHANGED <<graph, snapshots, _d3cola, rendered, layoutUnchanged, config, ports, sel, names, constrain,
                   now, cycle, prev>>

\* time passes
Advance ==
    /\ now < MaxTime
    /\ now' = now + 1
    /\ UNCHANGED <<graph, snapshots, _d3cola, engines, rendered, layoutUnchanged, config, ports, sel, names,
                   constrain, cycle, ends, draws, closed, last, prev>>

\* _chart.layoutUnchanged(v)
SetLayoutUnchanged(v) ==
    /\ v # layoutUnchanged
    /\ layoutUnchanged' = v
    /\ UNCHANGED <<graph, snapshots, _d3cola, engines, rendered, config, ports, sel, names, constrain, now,
                   cycle, ends, draws, closed, last, prev>>

\* a relayout() that leaves the snapshots as they are
RelayoutKeepsSnapshots ==
    /\ prev' = [prev EXCEPT !.relayout = TRUE, !.pending = TRUE]
    /\ UNCHANGED <<graph, snapshots, _d3cola, engines, rendered, layoutUnchanged, config, ports, sel, names,
                   constrain, now, cycle, ends, draws, closed, last>>

\* _chart.relayout
Relayout ==
    /\ _nodes_snapshot' = NullSnapshot
    /\ _edges_snapshot' = NullSnapshot
    /\ prev' = [prev EXCEPT !.relayout = TRUE, !.pending = TRUE]
    /\ UNCHANGED <<graph, _d3cola, engines, rendered, layoutUnchanged, config, ports, sel, names, constrain, now,
                   cycle, ends, draws, closed, last>>

(***************************************************************************)
(* dc_graph.place_ports, for the ports of one node.  An angle is a whole   *)
(* number of eighths of a turn, so Pi is 4; an undefined theta, bounds or  *)
(* vec is the empty tuple.  The edges of a port are given by the unit      *)
(* vector from their source to their target, which is parallel to an axis. *)
(***************************************************************************)
Pi == 4

\* normalize_angle: the angle in (-Pi, Pi]
normalize_angle(theta) == ((theta + Pi - 1) % (2 * Pi)) - (Pi - 1)

\* between_angles: theta lies on the arc that runs from a up to b
between_angles(theta, a, b) ==
    IF a <= b THEN a <= theta /\ theta <= b ELSE theta >= a \/ theta <= b

Abs(x) == IF x < 0 THEN -x ELSE x

\* a clip_angle that prefers the bound farther away
ClipFarther(theta, a, b) ==
    IF Abs(normalize_angle(theta - a)) < Abs(normalize_angle(theta - b)) THEN b ELSE a

clip_angle(theta, a, b) ==
    IF Abs(normalize_angle(theta - a)) < Abs(normalize_angle(theta - b)) THEN a ELSE b

\* the vector whose dx and dy are both NaN
NaNVec == <<"NaN">>

\* norm(v): v over its length; the vector between coincident points has length
\* 0, and 0 / 0 is NaN
norm(v) == IF v = <<0, 0>> THEN NaNVec ELSE v

\* vec(n, e): the unit vector of edge e, turned round when n is not its source;
\* e.dir is the direction from the edge's source to its target, <<0, 0>> when
\* the two are at the same point
vec(e) == norm(IF e.source THEN e.dir ELSE <<-e.dir[1], -e.dir[2]>>)

RECURSIVE Sum(_, _)
Sum(s, c) == IF s = <<>> THEN 0 ELSE s[1][c] + Sum(Tail(s), c)

\* p.vec: twice the average of the vectors of the port's edges (a port has
\* one or two), NaN when one of them is, or p.theta || undefined when it has
\* none
PortVec(p) ==
    LET angs == [i \in 1..Len(p.edges) |-> vec(p.edges[i])]
    IN  IF Len(angs) > 0
        THEN IF \E i \in 1..Len(angs) : Len(angs[i]) = 1
             THEN NaNVec
             ELSE <<(Sum(angs, 1) * 2) \div Len(angs), (Sum(angs, 2) * 2) \div Len(angs)>>
        ELSE IF p.theta # <<>> /\ p.theta # <<0>> THEN p.theta ELSE <<>>

\* only specified ports have bounds: p.bounds = bounds.map(normalize_angle)
PortBounds(p) ==
    IF p.orig /\ p.portBounds # <<>>
    THEN <<normalize_angle(p.portBounds[1]), normalize_angle(p.portBounds[2])>>
    ELSE p.bounds

\* the first loop over the ports of the node
Prepared(nports) ==
    [i \in 1..Len(nports) |-> [nports[i] EXCEPT !.vec = PortVec(nports[i]),
                                                !.bounds = PortBounds(nports[i])]]

\* the list a port is pushed to
Classify(p) ==
    IF p.theta = <<>>
    THEN "unplaced"
    ELSE IF p.bounds # <<>> /\ ~between_angles(p.theta[1], p.bounds[1], p.bounds[2])
         THEN "outside"
         ELSE "inside"

\* the positions in nports of the ports pushed to a list, in order
Pushed(nports, list) ==
    SelectSeq([i \in 1..Len(nports) |-> i], LAMBDA i : Classify(nports[i]) = list)

\* the ports left as they are, none clipped
NotClipped(nports) == nports

\* outside.forEach: theta is clipped into the bounds
Clipped(nports) ==
    [i \in 1..Len(nports) |->
        IF Classify(nports[i]) = "outside"
        THEN [nports[i] EXCEPT !.theta = <<clip_angle(nports[i].theta[1], nports[i].bounds[1],
                                                      nports[i].bounds[2])>>]
        ELSE nports[i]]

\* inside.sort by ascending theta: position i put into the sorted positions t
RECURSIVE SortByTheta(_, _)
SortByTheta(nports, s) ==
    IF s = <<>>
    THEN <<>>
    ELSE LET n == Len(s)
             t == SortByTheta(nports, SubSeq(s, 1, n - 1))
             j == Cardinality({h \in 1..Len(t) :
                                  nports[t[h]].theta[1] <= nports[s[n]].theta[1]})
         IN  SubSeq(t, 1, j) \o <<s[n]>> \o SubSeq(t, j + 1, Len(t))

\* normalize_angle_delta: the way from low up to high, in (0, 2 Pi]
normalize_angle_delta(d) == ((d - 1) % (2 * Pi)) + 1

\* any angle of the circle, whatever the port's bounds
WholeCircle(p) == {normalize_angle(d) : d \in 0..(2 * Pi - 1)}

\* the angles an unplaced port can get: low + Math.random() * delta, normalized,
\* for the whole eighths Math.random() can reach
RandomAngles(p) ==
    LET low == IF p.bounds # <<>> THEN p.bounds[1] ELSE -Pi
        high == IF p.bounds # <<>> THEN p.bounds[2] ELSE Pi
    IN  {normalize_angle(low + d) : d \in 0..(normalize_angle_delta(high - low) - 1)}

\* the ports before the call
GivenPorts(nports) ==
    [phase |-> "given", nports |-> nports, given |-> nports,
     inside |-> <<>>, outside |-> <<>>, unplaced |-> <<>>]

\* no call of place_ports
NoPorts == GivenPorts(<<>>)

\* dc_graph.place_ports for one node; random[i] is the angle drawn for port i
PlacePorts(random) ==
    /\ ports.phase = "given"
    /\ LET np1 == Prepared(ports.nports)
           np2 == Clipped(np1)
           unplaced == Pushed(np1, "unplaced")
           outside == Pushed(np1, "outside")
           np3 == [i \in 1..Len(np2) |->
                      IF Classify(np1[i]) = "unplaced"
                      THEN [np2[i] EXCEPT !.theta = <<random[i]>>]
                      ELSE np2[i]]
       IN  /\ \A i \in 1..Len(np1) :
                  Classify(np1[i]) = "unplaced" => random[i] \in RandomAngles(np1[i])
           /\ ports' = [phase |-> "placed",
                        nports |-> [i \in 1..Len(np3) |-> [np3[i] EXCEPT !.pos = np3[i].theta]],
                        given |-> ports.nports,
                        inside |-> SortByTheta(np2, Pushed(np1, "inside") \o outside),
                        outside |-> outside,
                        unplaced |-> unplaced]
    /\ UNCHANGED <<graph, snapshots, _d3cola, engines, rendered, layoutUnchanged, config,
                   constrain, now, cycle, ends, draws, closed, last, prev, sel, names>>

(***************************************************************************)
(* port_name and split_port_name.  A string is the sequence of its         *)
(* characters; null is the sequence of the one value null, that no         *)
(* characters make.                                                        *)
(***************************************************************************)
NullId == <<Null>>
NodeWord == <<"n", "o", "d", "e">>
EdgeWord == <<"e", "d", "g", "e">>
\* String(null), what + makes of a null operand
NullWord == <<"n", "u", "l", "l">>
Slash == "/"

\* the string + makes of an id
AsString(id) == IF id = NullId THEN NullWord ELSE id

\* port_name: null and the empty string are falsy
port_name(nodeId, edgeId, portName) ==
    (IF nodeId # NullId /\ nodeId # <<>>
     THEN NodeWord \o <<Slash>> \o AsString(nodeId)
     ELSE EdgeWord \o <<Slash>> \o AsString(edgeId)) \o <<Slash>> \o AsString(portName)

\* portname.split('/'): the parts between the slashes
RECURSIVE Split(_)
Split(s) ==
    IF \A i \in 1..Len(s) : s[i] # Slash
    THEN <<s>>
    ELSE LET i == CHOOSE j \in 1..Len(s) :
                      s[j] = Slash /\ \A h \in 1..(j - 1) : s[h] # Slash
         IN  <<SubSeq(s, 1, i - 1)>> \o Split(SubSeq(s, i + 1, Len(s)))

\* parts[i], 0-based, undefined beyond the last part
Part(parts, i) == IF i + 1 <= Len(parts) THEN parts[i + 1] ELSE <<Undef>>

\* split_port_name: the object holds nodeKey or edgeKey
split_port_name(portname) ==
    LET parts == Split(portname)
    IN  IF Part(parts, 0) = NodeWord
        THEN [owner |-> "nodeKey", key |-> Part(parts, 1), name |-> Part(parts, 2)]
        ELSE [owner |-> "edgeKey", key |-> Part(parts, 1), name |-> Part(parts, 2)]

\* the names before a call
GivenNames(nodeId, edgeId, portName) ==
    [phase |-> "given", nodeId |-> nodeId, edgeId |-> edgeId, portName |-> portName,
     portname |-> <<>>, split |-> <<>>]

\* no port named
NoNames == GivenNames(NullId, NullId, <<>>)

\* a call of port_name
PortName ==
    /\ names.phase = "given"
    /\ names' = [names EXCEPT !.phase = "named",
                              !.portname = port_name(names.nodeId, names.edgeId,
                                                     names.portName)]
    /\ UNCHANGED <<graph, snapshots, _d3cola, engines, rendered, layoutUnchanged, config,
                   ports, sel, constrain, now, cycle, ends, draws, closed, last, prev>>

\* a call of split_port_name on the name made
SplitPortName ==
    /\ names.phase = "named"
    /\ names' = [names EXCEPT !.phase = "split", !.split = split_port_name(names.portname)]
    /\ UNCHANGED <<graph, snapshots, _d3cola, engines, rendered, layoutUnchanged, config,
                   ports, sel, constrain, now, cycle, ends, draws, closed, last, prev>>

(***************************************************************************)
(* dc_graph.select_things: the selection of nodes by click and by brush.   *)
(* A selection is the array of the selected keys.  things_group.set_changed *)
(* reaches the listener the behavior registers in parent(), which is       *)
(* selection_changed(chart).                                               *)
(***************************************************************************)
SelectKeys == {"a", "b", "c"}
Events == [shiftKey : BOOLEAN, ctrlKey : BOOLEAN, metaKey : BOOLEAN]
\* the event of a handler that reads no modifier key
NoEvent == [shiftKey |-> FALSE, ctrlKey |-> FALSE, metaKey |-> FALSE]

isUnion(event) == event.shiftKey
isToggle(event) == IF sel.is_a_mac THEN event.metaKey ELSE event.ctrlKey

\* the positions of v in the array a
IndexOf(a, v) == {i \in 1..Len(a) : a[i] = v}

\* an add_array that appends v whether or not a has it
AddAlways(a, v) == a \o <<v>>

add_array(a, v) == IF IndexOf(a, v) # {} THEN a ELSE a \o <<v>>

toggle_array(a, v) ==
    IF IndexOf(a, v) # {} THEN SelectSeq(a, LAMBDA x : x # v) ELSE a \o <<v>>

\* rectSelect.reduce(f, a) for f one of add_array and toggle_array
RECURSIVE ReduceAdd(_, _)
ReduceAdd(rectSelect, a) ==
    IF rectSelect = <<>> THEN a
    ELSE ReduceAdd(Tail(rectSelect), add_array(a, Head(rectSelect)))
RECURSIVE ReduceToggle(_, _)
ReduceToggle(rectSelect, a) ==
    IF rectSelect = <<>> THEN a
    ELSE ReduceToggle(Tail(rectSelect), toggle_array(a, Head(rectSelect)))

\* what a handler that published nothing leaves of itself; again: it is a click
\* that toggles a key, as the handler before it was, on the same key
Handled(op, key, event, rect) ==
    [op |-> op, key |-> key, event |-> event, rect |-> rect, before |-> sel.selected,
     again |-> /\ op = "click" /\ sel.last.op = "click" /\ sel.last.key = key
               /\ sel.multipleSelect
               /\ ~isUnion(event) /\ isToggle(event)
               /\ ~isUnion(sel.last.event) /\ isToggle(sel.last.event),
     published |-> <<>>, refreshes |-> 0]

\* selection_changed(chart)(selection, refresh), the listener of set_changed,
\* called by handler h: the state of the behavior after it
selection_changed(h, selection, refresh) ==
    [sel EXCEPT !.selected = selection,
                !.last = [h EXCEPT !.published = <<[selection |-> selection,
                                                    refresh |-> refresh]>>,
                                   !.refreshes = IF refresh THEN 1 ELSE 0]]

\* the state after a handler that published nothing
Unpublished(h) == [sel EXCEPT !.last = h]

\* brushstart, registered by add_behavior when multipleSelect is set
brushstart(event) ==
    /\ sel.added /\ sel.multipleSelect
    /\ IF isUnion(event) \/ isToggle(event)
       THEN sel' = [Unpublished(Handled("brushstart", Null, event, <<>>))
                       EXCEPT !.oldSelected = sel.selected, !.brushing = TRUE]
       ELSE sel' = [selection_changed(Handled("brushstart", Null, event, <<>>), <<>>, TRUE)
                       EXCEPT !.oldSelected = <<>>, !.brushing = TRUE]
    /\ UNCHANGED <<graph, snapshots, _d3cola, engines, rendered, layoutUnchanged, config,
                   ports, names, constrain, now, cycle, ends, draws, closed, last, prev>>

\* the keys of the nodes of the diagram that lie inside a rectangle holding
\* the nodes inside, in the order of the node data
RectSelect(inside) == SelectSeq(sel.nodes, LAMBDA k : k \in inside)

\* a brushmove that works from the current selection
BrushMoveFromSelected(inside, event) ==
    /\ sel.brushing
    /\ LET rectSelect == RectSelect(inside)
           newSelected == IF isUnion(event) THEN ReduceAdd(rectSelect, sel.selected)
                          ELSE IF isToggle(event)
                               THEN ReduceToggle(rectSelect, sel.selected)
                               ELSE rectSelect
       IN  sel' = selection_changed(Handled("brushmove", Null, event, rectSelect),
                                    newSelected, TRUE)
    /\ UNCHANGED <<graph, snapshots, _d3cola, engines, rendered, layoutUnchanged, config,
                   ports, names, constrain, now, cycle, ends, draws, closed, last, prev>>

\* brushmove, of a gesture that brushstart began
brushmove(inside, event) ==
    /\ sel.brushing
    /\ LET rectSelect == RectSelect(inside)
           newSelected == IF isUnion(event) THEN ReduceAdd(rectSelect, sel.oldSelected)
                          ELSE IF isToggle(event)
                               THEN ReduceToggle(rectSelect, sel.oldSelected)
                               ELSE rectSelect
       IN  sel' = selection_changed(Handled("brushmove", Null, event, rectSelect),
                                    newSelected, TRUE)
    /\ UNCHANGED <<graph, snapshots, _d3cola, engines, rendered, layoutUnchanged, config,
                   ports, names, constrain, now, cycle, ends, draws, closed, last, prev>>

\* a click handler that takes the modifier keys into account whatever
\* multipleSelect is
ClickIgnoresSetting(key, event) ==
    /\ sel.added
    /\ IndexOf(sel.nodes, key) # {}
    /\ LET newSelected == IF isUnion(event) THEN add_array(sel.selected, key)
                          ELSE IF isToggle(event) THEN toggle_array(sel.selected, key)
                          ELSE <<key>>
       IN  sel' = [selection_changed(Handled("click", key, event, <<>>), newSelected, TRUE)
                      EXCEPT !.brushing = FALSE]
    /\ UNCHANGED <<graph, snapshots, _d3cola, engines, rendered, layoutUnchanged, config,
                   ports, names, constrain, now, cycle, ends, draws, closed, last, prev>>

\* the click handler add_behavior puts on the nodes; a click ends a brush
\* gesture
Click(key, event) ==
    /\ sel.added
    /\ IndexOf(sel.nodes, key) # {}
    /\ LET newSelected == IF ~sel.multipleSelect THEN <<key>>
                          ELSE IF isUnion(event) THEN add_array(sel.selected, key)
                          ELSE IF isToggle(event) THEN toggle_array(sel.selected, key)
                          ELSE <<key>>
       IN  sel' = [selection_changed(Handled("click", key, event, <<>>), newSelected, TRUE)
                      EXCEPT !.brushing = FALSE]
    /\ UNCHANGED <<graph, snapshots, _d3cola, engines, rendered, layoutUnchanged, config,
                   ports, names, constrain, now, cycle, ends, draws, closed, last, prev>>

\* the click on the background, handled when multipleSelect is off and
\* clickBackgroundClears, by default on, is on
BackgroundClick ==
    /\ sel.added /\ ~sel.multipleSelect
    /\ sel' = [selection_changed(Handled("background", Null, NoEvent, <<>>), <<>>, TRUE)
                  EXCEPT !.brushing = FALSE]
    /\ UNCHANGED <<graph, snapshots, _d3cola, engines, rendered, layoutUnchanged, config,
                   ports, names, constrain, now, cycle, ends, draws, closed, last, prev>>

\* a crop that is published like any other selection
CropRefreshes(h, selection) == selection_changed(h, selection, TRUE)

\* things_group.set_changed(now_selected, false)
Crop(h, selection) == selection_changed(h, selection, FALSE)

\* add_behavior, run for a redraw whose node layer holds the nodes given
add_behavior(nodes) ==
    /\ LET h == [Handled("add_behavior", Null, NoEvent, <<>>) EXCEPT !.rect = nodes]
           now_selected == SelectSeq(sel.selected, LAMBDA k : IndexOf(nodes, k) # {})
           s1 == IF sel.autoCropSelection /\ Len(sel.selected) # Len(now_selected)
                 THEN Crop(h, now_selected)
                 ELSE Unpublished(h)
       IN  sel' = [s1 EXCEPT !.added = TRUE, !.nodes = nodes]
    /\ UNCHANGED <<graph, snapshots, _d3cola, engines, rendered, layoutUnchanged, config,
                   ports, names, constrain, now, cycle, ends, draws, closed, last, prev>>

\* the behavior after dc_graph.select_things and parent()
NewSelect(multipleSelect, autoCropSelection, is_a_mac) ==
    [multipleSelect |-> multipleSelect, autoCropSelection |-> autoCropSelection,
     is_a_mac |-> is_a_mac, selected |-> <<>>, oldSelected |-> <<>>, brushing |-> FALSE,
     added |-> FALSE, nodes |-> <<>>,
     last |-> [op |-> "new", key |-> Null, event |-> NoEvent, rect |-> <<>>,
               before |-> <<>>, again |-> FALSE, published |-> <<>>, refreshes |-> 0]]

\* no select_things behavior in use: the defaults
NoSelect == NewSelect(TRUE, TRUE, FALSE)

(***************************************************************************)
(* The diagram after construction, and its behaviours.                     *)
(***************************************************************************)
InitChart ==
    /\ _nodes = EmptyMap
    /\ _edges = EmptyMap
    /\ nodes1 = <<>>
    /\ edges1 = <<>>
    /\ _stats = [nnodes |-> 0, nedges |-> 0]
    /\ _nodes_snapshot = NoSnapshot
    /\ _edges_snapshot = NoSnapshot
    /\ _d3cola = 0
    /\ engines = EmptyMap
    /\ rendered = FALSE
    /\ now = 0
    /\ cycle = 0
    /\ ends = EmptyMap
    /\ draws = EmptyMap
    /\ closed = {}
    /\ last = [op |-> "new", cyc |-> 0, elapsed |-> NoTime, out |-> <<>>,
               draws |-> 0, ends |-> 0, swept |-> {}, forced |-> "no",
               links |-> <<>>, constraints |-> <<>>]
    /\ prev = [nodes |-> <<>>, edges |-> <<>>, layoutUnchanged |-> FALSE, relayout |-> FALSE,
               pending |-> FALSE, gone |-> {}, unfixed |-> {}]

\* the properties that stay at their defaults: no ordering, parallel edges 5
\* pixels apart, and a constrain callback that returns no constraint
NoConstraints == [fresh |-> TRUE, objects |-> <<>>]
DefaultLayout ==
    /\ nodeOrdering = Null
    /\ edgeOrdering = Null
    /\ parallelEdgeOffset = 5
    /\ constrain = NoConstraints

Graph(nodes, edges) == [nodes |-> nodes, edges |-> edges]
eAA == EdgeRec("e", "a", "a")

\* what the engine does by itself, and what the caller can do with any graph of G
EngineNext ==
    \/ \E i \in 1..MaxCycle, p \in Points : Tick(i, p)
    \/ \E i \in 1..MaxCycle : End(i)

(***************************************************************************)
(* Spec: the layout driver in the default configuration but for            *)
(* initLayoutOnRedraw and showLayoutSteps; the data source returns one     *)
(* node, with or without a loop edge.                                      *)
(***************************************************************************)
Graphs == {Graph(<<a1>>, <<eAA>>), Graph(<<a1>>, <<>>)}

Init ==
    /\ InitChart
    /\ ports = NoPorts
    /\ sel = NoSelect
    /\ names = NoNames
    /\ DefaultLayout
    /\ layoutUnchanged = FALSE
    /\ initLayoutOnRedraw \in BOOLEAN
    /\ showLayoutSteps \in BOOLEAN
    /\ timeLimit = 0
    /\ induceNodes = FALSE
    /\ nodeFixedAccessor = FALSE

Next ==
    \/ \E g \in Graphs : Render(g.nodes, g.edges)
    \/ \E g \in Graphs : Redraw(g.nodes, g.edges)
    \/ EngineNext

Spec == Init /\ [][Next]_vars

(***************************************************************************)
(* SpecSnapshot: the snapshot comparison; the caller sets layoutUnchanged  *)
(* and calls relayout between redraws, and the records change in their     *)
(* serialization or only in a value JSON does not tell apart.              *)
(***************************************************************************)
SnapshotGraphs == {Graph(<<a1>>, <<eAA>>), Graph(<<aNaN>>, <<eAA>>),
                   Graph(<<aNull>>, <<eAA>>), Graph(<<aNull>>, <<>>)}

InitSnapshot ==
    /\ InitChart
    /\ ports = NoPorts
    /\ sel = NoSelect
    /\ names = NoNames
    /\ DefaultLayout
    /\ layoutUnchanged = FALSE
    /\ initLayoutOnRedraw = FALSE
    /\ showLayoutSteps = FALSE
    /\ timeLimit = 0
    /\ induceNodes = FALSE
    /\ nodeFixedAccessor = FALSE

NextSnapshot ==
    \/ \E g \in SnapshotGraphs : Render(g.nodes, g.edges)
    \/ \E g \in SnapshotGraphs : Redraw(g.nodes, g.edges)
    \/ EngineNext
    \/ \E v \in BOOLEAN : SetLayoutUnchanged(v)
    \/ Relayout

SpecSnapshot == InitSnapshot /\ [][NextSnapshot]_vars

(***************************************************************************)
(* SpecTime: the time limit; the clock advances between the handlers.      *)
(***************************************************************************)
TimeGraphs == {Graph(<<a1>>, <<>>)}

InitTime ==
    /\ InitChart
    /\ ports = NoPorts
    /\ sel = NoSelect
    /\ names = NoNames
    /\ DefaultLayout
    /\ layoutUnchanged = FALSE
    /\ initLayoutOnRedraw \in BOOLEAN
    /\ showLayoutSteps \in BOOLEAN
    /\ timeLimit \in {0, 1}
    /\ induceNodes = FALSE
    /\ nodeFixedAccessor = FALSE

NextTime ==
    \/ \E g \in TimeGraphs : Render(g.nodes, g.edges)
    \/ \E g \in TimeGraphs : Redraw(g.nodes, g.edges)
    \/ EngineNext
    \/ Advance

SpecTime == InitTime /\ [][NextTime]_vars

(***************************************************************************)
(* SpecTimeLive: a time limit of 1; a redraw is made only while the clock  *)
(* can still advance past the limit, every engine that runs keeps          *)
(* delivering ticks, a stopped engine delivers its end event, and time     *)
(* passes.                                                                 *)
(***************************************************************************)
InitTimeLive ==
    /\ InitChart
    /\ ports = NoPorts
    /\ sel = NoSelect
    /\ names = NoNames
    /\ DefaultLayout
    /\ layoutUnchanged = FALSE
    /\ initLayoutOnRedraw \in BOOLEAN
    /\ showLayoutSteps \in BOOLEAN
    /\ timeLimit = 1
    /\ induceNodes = FALSE
    /\ nodeFixedAccessor = FALSE

EndAfterStop(i) == i \in DOMAIN engines /\ engines[i].status = "stopped" /\ End(i)

NextTimeLive ==
    \/ \E g \in TimeGraphs : now + timeLimit < MaxTime /\ Render(g.nodes, g.edges)
    \/ \E g \in TimeGraphs : now + timeLimit < MaxTime /\ Redraw(g.nodes, g.edges)
    \/ EngineNext
    \/ Advance

SpecTimeLive ==
    /\ InitTimeLive
    /\ [][NextTimeLive]_vars
    /\ WF_vars(Advance)
    /\ \A i \in 1..MaxCycle : WF_vars(\E p \in Points : Tick(i, p))
    /\ \A i \in 1..MaxCycle : WF_vars(EndAfterStop(i))

(***************************************************************************)
(* SpecSelect: a select_things behavior on a diagram of up to three nodes, *)
(* with either setting of multipleSelect and autoCropSelection, on either  *)
(* platform; redraws change the nodes, the user clicks and brushes with    *)
(* any modifier keys held.                                                 *)
(***************************************************************************)
NodeChoices == {<<"a", "b", "c">>, <<"b", "a">>, <<"c">>}

InitSelect ==
    /\ InitChart
    /\ ports = NoPorts
    /\ DefaultLayout
    /\ layoutUnchanged = FALSE
    /\ initLayoutOnRedraw = FALSE
    /\ showLayoutSteps = TRUE
    /\ timeLimit = 0
    /\ induceNodes = FALSE
    /\ nodeFixedAccessor = FALSE
    /\ \E m \in BOOLEAN, c \in BOOLEAN, mac \in BOOLEAN : sel = NewSelect(m, c, mac)
    /\ names = NoNames

NextSelect ==
    \/ \E nodes \in NodeChoices : add_behavior(nodes)
    \/ \E key \in SelectKeys, event \in Events : Click(key, event)
    \/ BackgroundClick
    \/ \E event \in Events : brushstart(event)
    \/ \E inside \in SUBSET SelectKeys, event \in Events : brushmove(inside, event)

SpecSelect == InitSelect /\ [][NextSelect]_vars

(***************************************************************************)
(* SpecNames: port_name and split_port_name on the port of a node or of an *)
(* edge, ids and names being strings of up to two characters, of a letter  *)
(* and the slash.                                                          *)
(***************************************************************************)
MaxLen == 2
Chars == {"a", Slash}
Strings == UNION {[1..n -> Chars] : n \in 0..MaxLen}
\* (nodeId, null, name) and (null, edgeId, name)
Triples ==
    {<<id, NullId, name>> : id \in Strings, name \in Strings}
        \cup {<<NullId, id, name>> : id \in Strings, name \in Strings}

InitNames ==
    /\ InitChart
    /\ ports = NoPorts
    /\ sel = NoSelect
    /\ DefaultLayout
    /\ layoutUnchanged = FALSE
    /\ initLayoutOnRedraw = FALSE
    /\ showLayoutSteps = TRUE
    /\ timeLimit = 0
    /\ induceNodes = FALSE
    /\ nodeFixedAccessor = FALSE
    /\ \E t \in Triples : names = GivenNames(t[1], t[2], t[3])

NextNames ==
    \/ PortName
    \/ SplitPortName

SpecNames == InitNames /\ [][NextNames]_vars

(***************************************************************************)
(* SpecData: the reconciliation; the data source returns two nodes in      *)
(* either order, one of them fixed or missing, and edges between them, or  *)
(* to a key that is no node, or is one no more.                            *)
(***************************************************************************)
DataGraphs == {Graph(<<a1, b1>>, <<eAB, fBA>>), Graph(<<b1, a1>>, <<eAB>>),
               Graph(<<a1>>, <<eAB>>), Graph(<<a1, bFixed>>, <<fAC>>)}

InitData ==
    /\ InitChart
    /\ ports = NoPorts
    /\ sel = NoSelect
    /\ names = NoNames
    /\ DefaultLayout
    /\ layoutUnchanged = FALSE
    /\ initLayoutOnRedraw = FALSE
    /\ showLayoutSteps = FALSE
    /\ timeLimit = 0
    /\ induceNodes \in BOOLEAN
    /\ nodeFixedAccessor \in BOOLEAN

NextData ==
    \/ \E g \in DataGraphs : Render(g.nodes, g.edges)
    \/ \E g \in DataGraphs : Redraw(g.nodes, g.edges)
    \/ EngineNext

SpecData == InitData /\ [][NextData]_vars

(***************************************************************************)
(* SpecLayout: what redraw derives for the layout.  The data source        *)
(* returns up to four nodes, with parallel edges and an edge marked        *)
(* notLayout; the caller sets the orderings and parallelEdgeOffset, and a  *)
(* constrain callback that returns one constraint of each kind, built at   *)
(* every call or built once and returned at every call.                    *)
(***************************************************************************)
gAB == EdgeRec("g", "a", "b")
hBC == EdgeRec("h", "b", "c")
fBANotLayout == EdgeRecord("f", "b", "a", "true")

\* the constraints as the callback declares them, by node key
Alignment(axis, keys) ==
    [type |-> "alignment", axis |-> axis,
     offsets |-> [j \in 1..Len(keys) |-> [node |-> keys[j], offset |-> "0"]]]
Circle(keys, distance) ==
    [type |-> "circle", distance |-> distance,
     nodes |-> [j \in 1..Len(keys) |-> [node |-> keys[j]]]]
Ordering(axis, keys, ordering) ==
    [type |-> "ordering", axis |-> axis, gap |-> "gap", nodes |-> keys, ordering |-> ordering]
Gap(axis, left, right) ==
    [type |-> Undef, axis |-> axis, gap |-> "gap", left |-> left, right |-> right]

Declared == <<Alignment("y", <<"a", "c">>), Circle(<<"a", "b", "c", "d">>, Undef),
              Ordering("x", <<"c", "a", "b">>, "key"), Gap("y", "b", "d")>>

LayoutGraphs == {Graph(<<a1, b1, c1, d1>>, <<hBC, gAB, eAB>>),
                 Graph(<<c1, a1, d1, b1>>, <<eAB, fBANotLayout>>),
                 Graph(<<a1, b1, c1>>, <<eAB>>)}

\* nodeOrdering, edgeOrdering, parallelEdgeOffset
\* nodeOrdering, edgeOrdering, parallelEdgeOffset, layoutUnchanged
LayoutSettings == {<<Null, Null, 5, FALSE>>, <<"key", "key", 5, FALSE>>,
                   <<Null, Null, 0, TRUE>>}

InitLayout ==
    /\ InitChart
    /\ ports = NoPorts
    /\ sel = NoSelect
    /\ names = NoNames
    /\ initLayoutOnRedraw = FALSE
    /\ showLayoutSteps = FALSE
    /\ timeLimit = 0
    /\ induceNodes = FALSE
    /\ nodeFixedAccessor = FALSE
    /\ \E s \in LayoutSettings :
          /\ nodeOrdering = s[1] /\ edgeOrdering = s[2]
          /\ parallelEdgeOffset = s[3] /\ layoutUnchanged = s[4]
    /\ constrain \in {[fresh |-> TRUE, objects |-> Declared],
                      [fresh |-> FALSE, objects |-> Declared]}

NextLayout ==
    \/ \E g \in LayoutGraphs : Render(g.nodes, g.edges)
    \/ \E g \in LayoutGraphs : Redraw(g.nodes, g.edges)
    \/ EngineNext

SpecLayout == InitLayout /\ [][NextLayout]_vars

(***************************************************************************)
(* SpecPorts: place_ports is called once for a node with one or two ports. *)
(***************************************************************************)
PortEdge(dir, source) == [dir |-> dir, source |-> source]
Port(orig, theta, portBounds, edges) ==
    [orig |-> orig, theta |-> theta, portBounds |-> portBounds, bounds |-> <<>>,
     edges |-> edges, vec |-> <<>>, pos |-> <<>>]

Thetas == {<<>>, <<0>>, <<Pi>>, <<-2>>}
BoundsChoices == {<<>>, <<0, 2>>, <<2, -2>>, <<2 * Pi, 2 * Pi + 2>>}
EdgeChoices == {<<>>,
                <<PortEdge(<<1, 0>>, TRUE)>>,
                <<PortEdge(<<0, 1>>, FALSE)>>,
                <<PortEdge(<<0, 0>>, TRUE)>>,
                <<PortEdge(<<1, 0>>, TRUE), PortEdge(<<-1, 0>>, TRUE)>>,
                <<PortEdge(<<1, 0>>, TRUE), PortEdge(<<0, 1>>, TRUE)>>}
FirstPorts == {Port(TRUE, t, b, e) : t \in Thetas, b \in BoundsChoices, e \in EdgeChoices}
OtherPorts == {<<>>,
               <<Port(FALSE, <<>>, <<0, 2>>, <<>>)>>,
               <<Port(TRUE, <<1>>, <<0, 2>>, <<>>)>>,
               <<Port(FALSE, <<>>, <<0, 2>>, <<>>), Port(TRUE, <<1>>, <<0, 2>>, <<>>)>>}
Angles == (1 - Pi)..Pi

InitPorts ==
    /\ InitChart
    /\ DefaultLayout
    /\ layoutUnchanged = FALSE
    /\ initLayoutOnRedraw = FALSE
    /\ showLayoutSteps = TRUE
    /\ timeLimit = 0
    /\ induceNodes = FALSE
    /\ nodeFixedAccessor = FALSE
    /\ \E p \in FirstPorts, q \in OtherPorts : ports = GivenPorts(<<p>> \o q)
    /\ sel = NoSelect
    /\ names = NoNames

NextPorts == \E random \in [1..Len(ports.nports) -> Angles] : PlacePorts(random)

SpecPorts == InitPorts /\ [][NextPorts]_vars

(***************************************************************************)
(* Properties.                                                             *)
(***************************************************************************)
Calls(out) == {out[i] : i \in 1..Len(out)}
Running(engs) == {i \in DOMAIN engs : engs[i].status = "running"}
\* a step that is a redraw (by redraw() or by render())
RedrawStep == cycle' = cycle + 1
\* the redraw of this step is handed the records of the preceding redraw
SameRecords == cycle >= 1 /\ prev'.nodes = prev.nodes /\ prev'.edges = prev.edges

\* C1: 'end' is dispatched exactly once per redraw cycle: never a second time
\* for a cycle, and a cycle none of whose handlers can be called any more
\* has had its one 'end'.
EndOncePerCycle ==
    /\ closed \subseteq {1}
    /\ \A c \in DOMAIN ends :
           /\ ends[c] <= 1
           /\ ~Open(engines, c) /\ c < cycle => ends[c] = 1

\* the keys of the node records the last redraw worked on (after the
\* induceNodes filter), and those of the redraw of this step
ActiveKeys == {nodes1[i] : i \in 1..Len(nodes1)}
ActiveKeysAfter == {nodes1'[i] : i \in 1..Len(nodes1')}

\* C2: a node key that is among the node records of two consecutive redraws
\* keeps its wrapper object across the second one, and unless the node is
\* fixed that redraw leaves the wrapper's x and y as they were.
NodeWrapperKept ==
    [][RedrawStep =>
         \A k \in ActiveKeys \cap ActiveKeysAfter :
            /\ k \in DOMAIN _nodes /\ k \in DOMAIN _nodes'
            /\ _nodes'[k].id = _nodes[k].id
            /\ ~_nodes'[k].fixed => /\ _nodes'[k].x = _nodes[k].x
                                    /\ _nodes'[k].y = _nodes[k].y]_vars

\* the wrapper of a, made in an earlier cycle and moved by the engine, is still
\* where the engine put it right after a later redraw
NodeWrapperKeptWitness ==
    /\ last.op = "redraw"
    /\ "a" \in DOMAIN _nodes
    /\ _nodes["a"].id < last.cyc /\ ~_nodes["a"].fixed /\ _nodes["a"].x = "p1"

\* C3: an edge key that is among the edge records of two consecutive redraws
\* keeps its wrapper object across the second one.
EdgeWrapperKept ==
    [][RedrawStep =>
         \A k \in SeqKeys(prev.edges) \cap SeqKeys(prev'.edges) :
            /\ k \in DOMAIN _edges /\ k \in DOMAIN _edges'
            /\ _edges'[k].id = _edges[k].id]_vars

\* C4: after a redraw the node map holds exactly the keys of the redraw's
\* active node records and the edge map exactly the keys of its edge records:
\* the wrappers of keys that are gone were deleted.
MapsHoldCurrentKeys ==
    /\ DOMAIN _nodes = SeqKeys(InduceFilter(prev.nodes, prev.edges))
    /\ DOMAIN _edges = SeqKeys(prev.edges)
    /\ DOMAIN _nodes = ActiveKeys

\* a redraw has just deleted the wrapper of a key that is gone
MapsHoldCurrentKeysWitness ==
    /\ last.op = "redraw"
    /\ last.swept \cap Keys # {}
    /\ last.swept \cap EdgeKeys # {}
    /\ _nodes # EmptyMap

\* the redraw of this step took the skip path, or started the engine
Skipped == last'.op = "redraw" /\ "end" \in Calls(last'.out) /\ "start" \notin Calls(last'.out)
Started == last'.op = "redraw" /\ "start" \in Calls(last'.out) /\ "end" \notin Calls(last'.out)
\* both this redraw and the preceding one run with layoutUnchanged=false, and
\* relayout() was not called in between
BothFalse == ~layoutUnchanged /\ ~prev.layoutUnchanged /\ ~prev.relayout

\* C5: with layoutUnchanged=false, the second of two successive redraws with
\* identical records dispatches 'end', hands nothing to the engine, does not
\* start it, and leaves every node wrapper's x and y as they were.
SkipIdempotent ==
    [][RedrawStep /\ SameRecords /\ BothFalse =>
         /\ Skipped
         /\ last'.ends = 1
         /\ engines'[_d3cola'].status # "running"
         /\ engines'[_d3cola'].nodes = (IF _d3cola' = _d3cola THEN engines[_d3cola].nodes ELSE {})
         /\ DOMAIN _nodes' = DOMAIN _nodes
         /\ \A k \in DOMAIN _nodes :
                _nodes'[k].x = _nodes[k].x /\ _nodes'[k].y = _nodes[k].y]_vars

\* a redraw has just skipped the layout, after a node was moved by the engine
SkipIdempotentWitness ==
    /\ last.op = "redraw" /\ last.cyc >= 2
    /\ last.out = <<"stop", "end">>
    /\ ~prev.layoutUnchanged
    /\ "a" \in DOMAIN _nodes /\ _nodes["a"].x = "p1"

\* the serialized records the preceding redraw worked on, and those of the
\* redraw of this step
NodesText == Stringify([i \in 1..Len(nodes1) |-> _nodes[nodes1[i]].orig])
EdgesText == Stringify([i \in 1..Len(edges1) |-> _edges[edges1[i]].orig])
NodesTextAfter == Stringify([i \in 1..Len(nodes1') |-> _nodes'[nodes1'[i]].orig])
EdgesTextAfter == Stringify([i \in 1..Len(edges1') |-> _edges'[edges1'[i]].orig])

\* C6: a redraw with layoutUnchanged=false and no relayout() since the
\* preceding redraw skips the layout exactly when its serialized node records
\* and serialized active edge records are those of the preceding redraw,
\* whatever layoutUnchanged was then; otherwise it runs the engine.
SkipIffSameAsPreceding ==
    [][RedrawStep /\ cycle >= 1 /\ ~layoutUnchanged /\ ~prev.relayout =>
         /\ Skipped <=> (NodesTextAfter = NodesText /\ EdgesTextAfter = EdgesText)
         /\ Skipped \/ Started]_vars

\* C7, as the code has it: a redraw handed the records of the preceding redraw
\* runs the engine when layoutUnchanged is true; with layoutUnchanged at its
\* default false, in both redraws and without relayout(), it skips the layout.
UnchangedRunsOnlyIfSet ==
    [][RedrawStep /\ SameRecords =>
         /\ layoutUnchanged => Started
         /\ BothFalse => Skipped]_vars

\* the second redraw, handed the records of the first under the default, has
\* just skipped the layout
UnchangedRunsOnlyIfSetWitness ==
    /\ last.op = "redraw" /\ last.cyc = 2
    /\ ~layoutUnchanged /\ ~prev.layoutUnchanged /\ ~prev.relayout
    /\ prev.nodes = <<a1>> /\ _nodes_snapshot = Snapshot(prev.nodes)
    /\ last.out = <<"stop", "end">>

\* C7, as stated: with layoutUnchanged at its default, a redraw handed the
\* records of the preceding redraw still runs the engine.
DefaultRunsUnchanged ==
    [][RedrawStep /\ SameRecords /\ BothFalse => Started]_vars

\* C8: at no time are two layout runs iterating, whether redraw reuses the
\* engine or initLayoutOnRedraw makes a new one: the run in flight is stopped
\* before the next is started.
OneRunAtATime == Cardinality(Running(engines)) <= 1

\* C9: a tick handler stops the engine and dispatches 'end' exactly when
\* timeLimit is not 0 and the time since its run started exceeds timeLimit
\* (never with timeLimit = 0), and the run whose tick this was iterates no
\* more; and while time passes between two ticks nothing is stopped and
\* nothing is dispatched.
TickCancel ==
    last.op = "tick" =>
        /\ last.elapsed # NoTime
        /\ "stop" \in Calls(last.out) <=> (timeLimit > 0 /\ last.elapsed[1] > timeLimit)
        /\ "stop" \in Calls(last.out) =>
               /\ last.out[Len(last.out) - 1] = "stop"
               /\ last.out[Len(last.out)] = "end"
               /\ last.ends >= 1
               /\ \A i \in DOMAIN engines :
                      engines[i].tick = last.cyc => engines[i].status # "running"
        /\ "stop" \notin Calls(last.out) => "end" \notin Calls(last.out)

TimeLimitInTick ==
    /\ []TickCancel
    /\ [][now' # now => engines' = engines /\ ends' = ends /\ last' = last]_vars

\* a tick has just cancelled a run; before it the limit was exceeded between ticks
TimeLimitInTickWitness ==
    /\ last.op = "tick" /\ last.elapsed = <<MaxTime>>
    /\ timeLimit = 1
    /\ last.out[Len(last.out)] = "end"

\* C10: a tick handler calls draw exactly when showLayoutSteps is true; with
\* showLayoutSteps false the end handler of a run that converged calls draw,
\* then dispatches 'end', and that draw is the only one of its cycle.
DrawWhenShown ==
    /\ last.op = "tick" => ("draw" \in Calls(last.out) <=> showLayoutSteps)
    /\ last.op = "end" /\ ~showLayoutSteps =>
           last.out = <<"draw", "end">> /\ last.draws = 1
    /\ last.op = "end" /\ showLayoutSteps => last.out = <<"end">>

\* a run that ticked without drawing has converged and drawn
DrawWhenShownWitness ==
    /\ last.op = "end" /\ ~showLayoutSteps
    /\ last.out = <<"draw", "end">>
    /\ \E k \in DOMAIN _nodes : _nodes[k].x = "p1"

\* C11: an edge record whose source or target key has no wrapper in the node
\* map is left out of the active edges, without an error; the source and the
\* target of every active edge are the wrappers the node map holds for nodes
\* of the active node sequence.
MissingEndpointExcluded ==
    /\ \A i \in 1..Len(edges1) :
           LET e == _edges[edges1[i]]
           IN  /\ e.orig.sourcename \in ActiveKeys /\ e.orig.targetname \in ActiveKeys
               /\ e.source # NoRef /\ e.source = NodeRef(_nodes, e.orig.sourcename)
               /\ e.target # NoRef /\ e.target = NodeRef(_nodes, e.orig.targetname)
    /\ \A i \in 1..Len(prev.edges) :
           (prev.edges[i].sourcename \notin DOMAIN _nodes
               \/ prev.edges[i].targetname \notin DOMAIN _nodes)
           => \A j \in 1..Len(edges1) : edges1[j] # prev.edges[i].key
    /\ "TypeError" \notin Calls(last.out)

\* a redraw has just deleted the wrapper of b and left out the edge to b
MissingEndpointExcludedWitness ==
    /\ last.op = "redraw" /\ "b" \in last.swept
    /\ prev.edges = <<eAB>> /\ edges1 = <<>>
    /\ "e" \in DOMAIN _edges /\ _edges["e"].target = NoRef
    /\ Calls(last.out) \cap {"start", "end"} # {}

\* the two nodes the active edge at position i joins
Joined(i) == {_edges[edges1[i]].source[1], _edges[edges1[i]].target[1]}

\* C12: with parallelEdgeOffset not 0, the parallel value of an active edge is
\* the number of active edges before it in the sequence that join the same
\* two nodes, in either direction: N such edges get 0, 1, ..., N-1 in order.
ParallelIndexed ==
    parallelEdgeOffset # 0 =>
        \A i \in 1..Len(edges1) :
            _edges[edges1[i]].parallel =
                <<Cardinality({j \in 1..(i - 1) : Joined(j) = Joined(i)})>>

\* a->b, a->b, b->c have 0, 1, 0, or a->b, b->a have 0, 1
ParallelIndexedWitness ==
    /\ parallelEdgeOffset # 0
    /\ \/ /\ edges1 = <<"e", "g", "h">>
          /\ <<_edges["e"].parallel, _edges["g"].parallel, _edges["h"].parallel>>
                = <<(<<0>>), (<<1>>), (<<0>>)>>
          /\ _edges["e"].orig = eAB /\ _edges["g"].orig = gAB /\ _edges["h"].orig = hBC
       \/ /\ edges1 = <<"e", "f">>
          /\ <<_edges["e"].parallel, _edges["f"].parallel>> = <<(<<0>>), (<<1>>)>>
          /\ _edges["e"].orig = eAB /\ _edges["f"].orig = fBANotLayout

\* the redraw that ran last handed nodes, links and constraints to the engine
Handed == last.op = "redraw" /\ "start" \in Calls(last.out)
\* the key of the node at the index a handed constraint names
KeyAt(ref) == nodes1[CHOOSE j \in 1..Len(nodes1) : IndexRef(j - 1) = ref]
\* the gap constraints handed to the engine along an axis
GapsAlong(axis) == SelectSeq(last.constraints, LAMBDA g : g.type = Undef /\ g.axis = axis)

\* C13: for an ordering constraint over n nodes the engine is handed n-1 gap
\* constraints with its axis and gap, each from a node to the next node in
\* sorted order and none between nodes that are not adjacent; the ordering
\* constraint itself is not handed over.
OrderingReduced ==
    Handed =>
        /\ \A i \in 1..Len(last.constraints) : last.constraints[i].type # "ordering"
        /\ \A i \in 1..Len(constrain.objects) :
               LET c == constrain.objects[i]
                   named == {c.nodes[j] : j \in 1..Len(c.nodes)}
                   gaps == GapsAlong(c.axis)
               IN  c.type = "ordering" =>
                       /\ Len(gaps) = Len(c.nodes) - 1
                       /\ \A j, h \in 1..Len(gaps) : j # h => gaps[j].left # gaps[h].left
                       /\ \A j \in 1..Len(gaps) :
                              LET l == KeyAt(gaps[j].left)
                                  r == KeyAt(gaps[j].right)
                              IN  /\ gaps[j].gap = c.gap
                                  /\ l \in named /\ r \in named
                                  /\ KeyRank(l) < KeyRank(r)
                                  /\ ~\E k \in named : KeyRank(l) < KeyRank(k)
                                                        /\ KeyRank(k) < KeyRank(r)

\* with the nodes in the order c, a, d, b the ordering of c, a, b by key has
\* become the gap constraints (a, b) and (b, c), by index (1, 3) and (3, 0)
OrderingReducedWitness ==
    /\ Handed
    /\ nodes1 = <<"c", "a", "d", "b">>
    /\ [j \in 1..Len(GapsAlong("x")) |-> <<GapsAlong("x")[j].left, GapsAlong("x")[j].right>>]
         = <<(<<"1", "3">>), (<<"3", "0">>)>>

\* the links handed to the engine that come from an edge, and the synthetic ones
EdgeLinks == SelectSeq(last.links, LAMBDA l : l.key # Undef)
SyntheticLinks == SelectSeq(last.links, LAMBDA l : l.key = Undef)
\* a reference to the wrapper that the node map holds now
CurrentNode(ref) == \E k \in DOMAIN _nodes : ref = <<k, _nodes[k].id>>
OfType(type) == {i \in 1..Len(constrain.objects) : constrain.objects[i].type = type}

\* C14: no circle constraint is handed to the engine; a circle constraint is
\* realised as synthetic links that follow the edge links handed to the engine,
\* each between current node wrappers and with a distance of its own; the
\* active edges and their count hold only edges of the input; the handed
\* constraints are the declared ones that are neither circle nor ordering and
\* the gap constraints of the orderings, so a circle adds none.
CircleAsWheel ==
    Handed =>
        /\ \A i \in 1..Len(last.constraints) : last.constraints[i].type # "circle"
        /\ last.links = EdgeLinks \o SyntheticLinks
        /\ OfType("circle") # {} => Len(SyntheticLinks) > 0
        /\ \A j \in 1..Len(SyntheticLinks) :
               /\ CurrentNode(SyntheticLinks[j].source)
               /\ CurrentNode(SyntheticLinks[j].target)
               /\ SyntheticLinks[j].internal.distance # <<>>
        /\ \A j \in 1..Len(edges1) : \E h \in 1..Len(prev.edges) : prev.edges[h].key = edges1[j]
        /\ \A j \in 1..Len(EdgeLinks) : \E h \in 1..Len(edges1) : edges1[h] = EdgeLinks[j].key
        /\ _stats.nedges = Len(edges1)
        /\ Len(edges1) <= Len(prev.edges)
        /\ Len(last.constraints)
             = Cardinality(DOMAIN constrain.objects \ (OfType("circle") \cup OfType("ordering")))
               + Len(GapsAlong("x"))

\* the circle over a, b, c, d has become links a-b, b-c, c-d and d-a after the
\* links of 3 edges, and the engine has 2 constraints besides the 2 gaps of
\* the ordering
CircleAsWheelWitness ==
    /\ Handed
    /\ Len(edges1) = 3
    /\ Len(EdgeLinks) = 3
    /\ Len(last.constraints) = 4
    /\ \E j \in 1..Len(SyntheticLinks) :
           /\ SyntheticLinks[j].source[1] = "d"
           /\ SyntheticLinks[j].target[1] = "a"

\* the constraints the callback declares by key that go to the engine as they are
KeyBased == SelectSeq(Declared, LAMBDA c : c.type \notin {"circle", "ordering"})

\* C15: in the constraints handed to the engine every node reference of an
\* alignment offset and of an untyped axis constraint is an index in 0..n-1,
\* and the node at that index of the node array handed to the engine in the
\* same redraw has the key the constraint named.
IndexesDesignateNamedNodes ==
    Handed =>
        \A i \in 1..Len(KeyBased) :
            LET named == Refs(KeyBased[i])
                handed == Refs(last.constraints[i])
            IN  /\ Len(handed) = Len(named)
                /\ Len(named) > 0
                /\ \A j \in 1..Len(handed) :
                       /\ handed[j] \in {IndexRef(p) : p \in 0..(Len(nodes1) - 1)}
                       /\ KeyAt(handed[j]) = named[j]

\* with the nodes in the order c, a, d, b the alignment of a and c names the
\* indices 1 and 0 and the gap from b to d the indices 3 and 2
IndexesDesignateNamedNodesWitness ==
    /\ Handed
    /\ nodes1 = <<"c", "a", "d", "b">>
    /\ last.constraints[1].type = "alignment"
    /\ Refs(last.constraints[1]) = <<"1", "0">>
    /\ last.constraints[2].type = Undef
    /\ Refs(last.constraints[2]) = <<"3", "2">>

\* C16: when a redraw that handed constraints and links to the engine is
\* followed by a redraw with the same records, hence over the same nodes, and
\* with the same constraints declared by the callback, and layoutUnchanged is
\* set so that the engine runs on unchanged data, the second redraw hands the
\* engine the same constraints and links.
TranslationKeepsNoState ==
    [][(RedrawStep /\ layoutUnchanged /\ Handed /\ SameRecords)
          => /\ Handed'
             /\ last'.constraints = last.constraints
             /\ last'.links = last.links]_vars

\* C17: the first redraw with layoutUnchanged=false after relayout() starts
\* the engine, also when its records are those of the preceding redraw; the
\* redraw that follows it at once with the same records, layoutUnchanged=false
\* and no further relayout() skips the layout.
RelayoutForcesOneLayout ==
    [][RedrawStep =>
          /\ (~layoutUnchanged /\ prev.pending) => Started
          /\ (~layoutUnchanged /\ ~prev.pending /\ last.op = "redraw"
                /\ last.forced \in {"same", "changed"} /\ SameRecords) => Skipped]_vars

\* a redraw forced by relayout() on unchanged records has been followed by a
\* redraw with the same records, which skipped the layout
RelayoutForcesOneLayoutWitness ==
    /\ last.op = "redraw"
    /\ last.forced = "after"
    /\ ~layoutUnchanged
    /\ Calls(last.out) = {"stop", "end"}

\* the keys of the edges among the links handed to the engine
LinkKeys == {last.links[j].key : j \in 1..Len(last.links)} \ {Undef}

\* C18: when a redraw starts the engine, every edge record whose endpoints
\* have wrappers is an active edge, counted in the statistics and given a
\* parallel index when parallelEdgeOffset is nonzero, whether it is a layout
\* edge or not; it is among the links handed to the engine exactly if
\* edgeIsLayoutAccessor is true for it (it is not marked notLayout).
NonLayoutEdgeDrawnNotLaidOut ==
    Handed =>
        /\ _stats.nedges = Len(edges1)
        /\ \A i \in 1..Len(prev.edges) :
               LET r == prev.edges[i]
               IN  (r.sourcename \in DOMAIN _nodes /\ r.targetname \in DOMAIN _nodes) =>
                       /\ \E j \in 1..Len(edges1) : edges1[j] = r.key
                       /\ parallelEdgeOffset # 0 => _edges[r.key].parallel # NoParallel
                       /\ Truthy(r.notLayout) <=> r.key \notin LinkKeys

\* the edge f from b to a, marked notLayout, is the second of two active edges
\* between a and b and is not among the engine's links, where e is
NonLayoutEdgeDrawnNotLaidOutWitness ==
    /\ Handed
    /\ edges1 = <<"e", "f">>
    /\ _stats.nedges = 2
    /\ Truthy(_edges["f"].orig.notLayout)
    /\ _edges["f"].parallel = <<1>>
    /\ LinkKeys = {"e"}

\* the keys of the nodes an active edge joins
Incident == {_edges[edges1[j]].orig.sourcename : j \in 1..Len(edges1)}
            \cup {_edges[edges1[j]].orig.targetname : j \in 1..Len(edges1)}

\* C19: with induceNodes set, every node of the active node sequence has an
\* active edge incident to it, and a node record that no edge record names
\* is not active and has no wrapper.
InducedNodesHaveActiveEdge ==
    induceNodes =>
        /\ \A i \in 1..Len(nodes1) : nodes1[i] \in Incident
        /\ \A i \in 1..Len(prev.nodes) :
               (\A j \in 1..Len(prev.edges) :
                    /\ prev.edges[j].sourcename # prev.nodes[i].key
                    /\ prev.edges[j].targetname # prev.nodes[i].key)
               => /\ prev.nodes[i].key \notin ActiveKeys
                  /\ prev.nodes[i].key \notin DOMAIN _nodes

\* C20: the wrapper of the node at position i of the active node sequence has
\* index i, counted from 0; the sequence is the node records in input order,
\* or sorted by nodeOrdering when there is one; the indices of the wrappers in
\* the node map are pairwise distinct and are exactly 0..n-1.
IndexIsPosition ==
    /\ \A i \in 1..Len(nodes1) : _nodes[nodes1[i]].index = i - 1
    /\ Cardinality(DOMAIN _nodes) = Len(nodes1)
    /\ \A k, h \in DOMAIN _nodes : k # h => _nodes[k].index # _nodes[h].index
    /\ {_nodes[k].index : k \in DOMAIN _nodes} = 0..(Len(nodes1) - 1)
    /\ Len(nodes1) = Len(prev.nodes)
    /\ {nodes1[i] : i \in 1..Len(nodes1)} = {prev.nodes[i].key : i \in 1..Len(prev.nodes)}
    /\ IF nodeOrdering = Null
       THEN \A i \in 1..Len(nodes1) : nodes1[i] = prev.nodes[i].key
       ELSE \A i, j \in 1..Len(nodes1) :
                i < j => KeyRank(_nodes[nodes1[i]].orig[nodeOrdering])
                           < KeyRank(_nodes[nodes1[j]].orig[nodeOrdering])

\* the records c, a, d, b sorted by key: the wrappers of a, b, c, d have the
\* indices 0, 1, 2, 3
IndexIsPositionWitness ==
    /\ last.op = "redraw"
    /\ nodeOrdering = "key"
    /\ [i \in 1..Len(prev.nodes) |-> prev.nodes[i].key] = <<"c", "a", "d", "b">>
    /\ nodes1 = <<"a", "b", "c", "d">>
    /\ _nodes["c"].index = 2
    /\ _nodes["b"].index = 1

\* the edge records of the last redraw whose source and target are active nodes
Attached == {i \in 1..Len(prev.edges) :
                /\ prev.edges[i].sourcename \in ActiveKeys
                /\ prev.edges[i].targetname \in ActiveKeys}

\* C21: after a redraw, whether it ran the layout or skipped it, getStats()
\* gives as nnodes the number of active nodes and as nedges the number of
\* active edges, which are the edge records with both endpoints active.
StatsCountActive ==
    cycle >= 1 =>
        /\ getStats.nnodes = Len(nodes1)
        /\ getStats.nnodes = Len(InduceFilter(prev.nodes, prev.edges))
        /\ getStats.nedges = Len(edges1)
        /\ getStats.nedges = Cardinality(Attached)

\* a redraw that skipped the layout has left one node and no edge counted,
\* its one edge record lacking an endpoint
StatsCountActiveWitness ==
    /\ last.op = "redraw"
    /\ last.out = <<"stop", "end">>
    /\ Len(prev.edges) = 1
    /\ getStats = [nnodes |-> 1, nedges |-> 0]

\* the angle between two directions, the shorter way round
AngularDistance(x, y) ==
    LET d == (x - y) % (2 * Pi) IN IF d <= Pi THEN d ELSE 2 * Pi - d

\* C22: a port whose theta lay outside its bounds has got as theta the bound
\* that is angularly no farther from that theta than the other bound, and
\* is in the inside list.
OutsideClippedToCloserBound ==
    ports.phase = "placed" =>
        \A j \in 1..Len(ports.outside) :
            LET i == ports.outside[j]
                was == ports.given[i].theta[1]
                p == ports.nports[i]
            IN  /\ p.theta[1] \in {p.bounds[1], p.bounds[2]}
                /\ AngularDistance(was, p.theta[1]) <= AngularDistance(was, p.bounds[1])
                /\ AngularDistance(was, p.theta[1]) <= AngularDistance(was, p.bounds[2])
                /\ \E h \in 1..Len(ports.inside) : ports.inside[h] = i

\* a port with bounds [0, Pi/2] and theta Pi has been clipped to Pi/2
OutsideClippedToCloserBoundWitness ==
    /\ ports.phase = "placed"
    /\ ports.outside = <<1>>
    /\ ports.given[1].theta = <<Pi>>
    /\ ports.nports[1].bounds = <<0, 2>>
    /\ ports.nports[1].theta = <<2>>

\* C23: when the tick handler cancels a run because the time limit is
\* exceeded and dispatches 'end', draw has been called for that cycle, by this
\* handler or an earlier one, whatever showLayoutSteps is.
CancelledRunIsDrawn ==
    (last.op = "tick" /\ "end" \in Calls(last.out)) => last.draws >= 1

\* C24: a redraw that dispatches 'end' on the skip path finds no engine still
\* iterating: the run started for these records has delivered its end, by
\* convergence or by the time limit.
SkipReportsFinishedLayout ==
    [][(RedrawStep /\ Skipped) => Running(engines) = {}]_vars

\* C25: when render() has dispatched 'end' for its cycle, draw has been called
\* in that cycle for the elements render() created anew.
RenderIsDrawnByEnd ==
    (last.op = "redraw" /\ "resetSvg" \in Calls(last.out) /\ "end" \in Calls(last.out))
        => last.draws >= 1

\* the chart's engine is iterating; 'end' was dispatched for cycle c
ChartEngineRuns ==
    IF _d3cola \in DOMAIN engines THEN engines[_d3cola].status = "running" ELSE FALSE
EndDispatched(c) == IF c \in DOMAIN ends THEN ends[c] >= 1 ELSE FALSE

\* C26: with a time limit, ticks that keep coming and time passing, a layout
\* run started in cycle c leads, unless a further redraw is made, to a state
\* in which the chart's engine runs no more and 'end' was dispatched for c.
TimeLimitEndsRun ==
    \A c \in 1..MaxCycle :
        (cycle = c /\ ChartEngineRuns) ~> (cycle > c \/ (~ChartEngineRuns /\ EndDispatched(c)))

\* the tick handler of the current cycle has just cancelled the run
TimeLimitEndsRunWitness ==
    /\ timeLimit > 0
    /\ last.op = "tick" /\ last.cyc = cycle
    /\ "stop" \in Calls(last.out) /\ "end" \in Calls(last.out)
    /\ engines[_d3cola].status # "running"
    /\ ends[cycle] >= 1

\* C27: no node wrapper survives a redraw whose active records lack its key;
\* the wrapper a redraw makes for a key that had none is a new object, with
\* the index, the fixed flag and the position this redraw alone gives it.
AbsentKeyGetsNewWrapper ==
    [][RedrawStep =>
          \A k \in Keys :
             /\ k \notin ActiveKeysAfter => k \notin DOMAIN _nodes'
             /\ (k \notin DOMAIN _nodes /\ k \in DOMAIN _nodes') =>
                    LET w == _nodes'[k]
                        fixed == nodeFixedAccessor /\ Truthy(w.orig.fixed)
                    IN  /\ w.id = cycle'
                        /\ nodes1'[w.index + 1] = k
                        /\ w.fixed = fixed
                        /\ w.x = (IF fixed THEN w.orig.x
                                  ELSE IF Started THEN Center ELSE Undef)
                        /\ w.y = (IF fixed THEN w.orig.y
                                  ELSE IF Started THEN Center ELSE Undef)]_vars

\* the key b, whose wrapper an earlier redraw deleted, has just got a new one
AbsentKeyGetsNewWrapperWitness ==
    /\ last.op = "redraw"
    /\ "b" \in prev.gone
    /\ "b" \in DOMAIN _nodes
    /\ _nodes["b"].id = cycle

\* C28: after every redraw a wrapper's fixed flag is TRUE exactly when a
\* nodeFixedAccessor is set and is truthy for the wrapper's current record;
\* a fixed node takes x and y from its record, and the x and y of a node not
\* fixed in this redraw stay as they were (the engine, when started, placing
\* a node that had none).
FixedFollowsAccessor ==
    [][RedrawStep =>
          \A k \in DOMAIN _nodes' :
             LET w == _nodes'[k]
                 fixed == nodeFixedAccessor /\ Truthy(w.orig.fixed)
             IN  /\ w.fixed = fixed
                 /\ fixed => (w.x = w.orig.x /\ w.y = w.orig.y)
                 /\ (~fixed /\ k \in DOMAIN _nodes) =>
                       /\ w.x = (IF _nodes[k].x = Undef /\ Started
                                 THEN Center ELSE _nodes[k].x)
                       /\ w.y = (IF _nodes[k].y = Undef /\ Started
                                 THEN Center ELSE _nodes[k].y)]_vars

\* the wrapper of b, fixed after an earlier redraw, is kept by a redraw whose
\* record for b is not fixed: the flag is FALSE and the position is kept
FixedFollowsAccessorWitness ==
    /\ last.op = "redraw"
    /\ "b" \in prev.unfixed
    /\ "b" \in DOMAIN _nodes
    /\ _nodes["b"].id < cycle
    /\ _nodes["b"].orig = b1
    /\ _nodes["b"].fixed = FALSE
    /\ _nodes["b"].x = bFixed.x

\* Math.atan2(v[2], v[1]) in eighths of a turn, for a vector along one of the
\* eight directions
VecAngle(v) ==
    IF v[2] = 0 THEN (IF v[1] > 0 THEN 0 ELSE Pi)
    ELSE IF v[2] > 0 THEN (IF v[1] > 0 THEN 1 ELSE IF v[1] = 0 THEN 2 ELSE 3)
    ELSE (IF v[1] > 0 THEN -1 ELSE IF v[1] = 0 THEN -2 ELSE -3)

\* the positions in ports.given of the ports whose edges average to a vector
\* that is not zero
PortsWithDirection ==
    {i \in 1..Len(ports.given) :
        /\ Len(ports.given[i].edges) > 0
        /\ PortVec(ports.given[i]) \notin {<<0, 0>>, NaNVec}}

\* C29: a port whose edges average to a non-zero vector is never unplaced, and
\* its theta is the angle of that average (clipped, if that lies outside the
\* port's bounds).
EdgesGiveTheta ==
    ports.phase = "placed" =>
        \A i \in PortsWithDirection :
            LET theta == VecAngle(PortVec(ports.given[i]))
                p == ports.nports[i]
            IN  /\ \A h \in 1..Len(ports.unplaced) : ports.unplaced[h] # i
                /\ p.theta = IF p.bounds # <<>> /\ ~between_angles(theta, p.bounds[1], p.bounds[2])
                             THEN <<clip_angle(theta, p.bounds[1], p.bounds[2])>>
                             ELSE <<theta>>

\* the positions held by a list of place_ports
Listed(list) == {list[h] : h \in 1..Len(list)}

\* C30: place_ports pushes each port of the node to exactly one list:
\* unplaced when its theta is undefined, outside when it has a theta and
\* bounds and the theta is not between them, inside otherwise; once the
\* outside ports are clipped and pushed to inside, each port is in exactly one
\* of inside and unplaced, and no port of inside has a theta outside its bounds.
PortsClassifiedOnce ==
    ports.phase = "placed" =>
        /\ Len(ports.inside) + Len(ports.unplaced) = Len(ports.given)
        /\ \A i \in 1..Len(ports.given) :
              LET theta == ports.given[i].theta
                  p == ports.nports[i]
                  isUnplaced == theta = <<>>
                  isOutside == /\ theta # <<>>
                               /\ p.bounds # <<>>
                               /\ ~between_angles(theta[1], p.bounds[1], p.bounds[2])
              IN  /\ i \in Listed(ports.unplaced) <=> isUnplaced
                  /\ i \in Listed(ports.outside) <=> isOutside
                  /\ i \in Listed(ports.inside) <=> ~isUnplaced
                  /\ (i \in Listed(ports.inside) /\ p.bounds # <<>>) =>
                        between_angles(p.theta[1], p.bounds[1], p.bounds[2])

\* a node with a port of each kind: one unplaced, one outside its bounds and
\* clipped, one inside from the start
PortsClassifiedOnceWitness ==
    /\ ports.phase = "placed"
    /\ ports.unplaced # <<>>
    /\ ports.outside # <<>>
    /\ Len(ports.inside) > Len(ports.outside)

DegeneratePorts ==
    {i \in 1..Len(ports.given) :
        /\ Len(ports.given[i].edges) > 0
        /\ PortVec(ports.given[i]) \in {<<0, 0>>, NaNVec}}

\* C32: a port whose edges' average direction is degenerate is unplaced.
DegenerateIsUnplaced ==
    ports.phase = "placed" => DegeneratePorts \subseteq Listed(ports.unplaced)

\* the array a holds the key v
Holds(a, v) == \E i \in 1..Len(a) : a[i] = v

\* the array a without the key v, the others in their order
Without(a, v) == SelectSeq(a, LAMBDA x : x # v)

\* the modifier key that toggles on the platform: meta on a Mac, ctrl elsewhere
ToggleHeld(event) ==
    (sel.is_a_mac /\ event.metaKey) \/ (~sel.is_a_mac /\ event.ctrlKey)

\* the one selection a handler published, with a refresh of the chart
PublishedOnce(selection) ==
    sel.last.published = <<[selection |-> selection, refresh |-> TRUE]>>

\* C33: a node click publishes [key] when multipleSelect is off, whatever
\* modifier keys are held, or when none is held; with multipleSelect on, a
\* shift-click publishes the previous selection plus key (unchanged when it
\* holds key), and a click with the platform's toggle key (ctrl, meta on a
\* Mac) and without shift publishes the previous selection with key taken out
\* when it holds key, added when not.
ClickPublishes ==
    sel.last.op = "click" =>
        LET key == sel.last.key
            event == sel.last.event
            before == sel.last.before
        IN  /\ (~sel.multipleSelect
                   \/ (~event.shiftKey /\ ~event.ctrlKey /\ ~event.metaKey)) =>
                   PublishedOnce(<<key>>)
            /\ (sel.multipleSelect /\ event.shiftKey) =>
                   PublishedOnce(IF Holds(before, key) THEN before ELSE Append(before, key))
            /\ (sel.multipleSelect /\ ~event.shiftKey /\ ToggleHeld(event)) =>
                   PublishedOnce(IF Holds(before, key) THEN Without(before, key)
                                 ELSE Append(before, key))

\* with multipleSelect on, a click with the toggle key has taken b out of
\* the selection [a, b, c]
ClickPublishesWitness ==
    /\ sel.last.op = "click"
    /\ sel.last.key = "b"
    /\ sel.multipleSelect
    /\ ~sel.last.event.shiftKey /\ ToggleHeld(sel.last.event)
    /\ sel.last.before = <<"a", "b", "c">>
    /\ sel.selected = <<"a", "c">>

\* the keys of a selection
Selected(a) == {a[i] : i \in 1..Len(a)}

\* C34: from the empty selection on, no handler leaves a key in the selection
\* more than once, and the second of two successive clicks that toggle the
\* same key leaves the set of selected keys as it was before the first.
SelectionIsASet ==
    [][sel' # sel =>
          /\ Cardinality(Selected(sel'.selected)) = Len(sel'.selected)
          /\ sel'.last.again => Selected(sel'.selected) = Selected(sel.last.before)]_vars

\* b, selected first of [b, a], was toggled twice: the selection is [a, b]
SelectionIsASetWitness ==
    /\ sel.last.again
    /\ sel.last.key = "b"
    /\ sel.last.before = <<"a">>
    /\ sel.selected = <<"a", "b">>

\* C35: every brushmove publishes, of the selection captured at brushstart
\* and the keys now inside the rectangle: the rectangle's keys alone with no
\* modifier, the captured selection and the rectangle's keys with shift,
\* those in exactly one of the two with the toggle key; the captured
\* selection stays as brushstart left it, which without modifier is empty,
\* the selection then being cleared.
BrushFromCaptured ==
    [][sel' # sel =>
          /\ sel'.last.op = "brushmove" =>
                LET event == sel'.last.event
                    rect == Selected(sel'.last.rect)
                    old == Selected(sel.oldSelected)
                IN  /\ sel'.oldSelected = sel.oldSelected
                    /\ sel'.last.published = <<[selection |-> sel'.selected, refresh |-> TRUE]>>
                    /\ Selected(sel'.selected) =
                          IF event.shiftKey THEN old \cup rect
                          ELSE IF ToggleHeld(event) THEN (old \ rect) \cup (rect \ old)
                          ELSE rect
          /\ sel'.last.op = "brushstart" =>
                IF sel'.last.event.shiftKey \/ ToggleHeld(sel'.last.event)
                THEN sel'.oldSelected = sel.selected /\ sel'.selected = sel.selected
                ELSE sel'.oldSelected = <<>> /\ sel'.selected = <<>>]_vars

\* a gesture begun with the toggle key on the selection [a, b]: the rectangle,
\* which held b and c and published [a, c], has shrunk to c and published
\* [a, b, c]
BrushFromCapturedWitness ==
    /\ sel.last.op = "brushmove"
    /\ ~sel.last.event.shiftKey /\ ToggleHeld(sel.last.event)
    /\ sel.oldSelected = <<"a", "b">>
    /\ sel.last.before = <<"a", "c">>
    /\ sel.last.rect = <<"c">>
    /\ sel.selected = <<"a", "b", "c">>

\* C36: after add_behavior, with autoCropSelection on every selected key is
\* the key of a node of the diagram, and a crop is published once, with
\* refresh false, the chart not being refreshed; with autoCropSelection off
\* the selection is as it was and nothing is published.
CropToPresentNodes ==
    sel.last.op = "add_behavior" =>
        /\ sel.last.refreshes = 0
        /\ \A i \in 1..Len(sel.last.published) : ~sel.last.published[i].refresh
        /\ IF sel.autoCropSelection
           THEN /\ Selected(sel.selected) = Selected(sel.last.before) \cap Selected(sel.nodes)
                /\ sel.selected # sel.last.before =>
                      sel.last.published = <<[selection |-> sel.selected, refresh |-> FALSE]>>
           ELSE sel.selected = sel.last.before /\ sel.last.published = <<>>

\* a redraw without c: the selection [a, c] is cropped to [a]
CropToPresentNodesWitness ==
    /\ sel.last.op = "add_behavior"
    /\ sel.autoCropSelection
    /\ sel.nodes = <<"b", "a">>
    /\ sel.last.before = <<"a", "c">>
    /\ sel.selected = <<"a">>
    /\ sel.last.published = <<[selection |-> <<"a">>, refresh |-> FALSE]>>

\* the owner, id and name that were given
GivenTriple == <<names.nodeId, names.edgeId, names.portName>>

\* C37: split_port_name gives back the owner's id and the name port_name was
\* given, as nodeKey for a node's port and as edgeKey for an edge's, and no
\* other owner, id and name have the same port name.
PortNameRoundTrip ==
    /\ names.phase = "split" =>
          names.split = IF names.nodeId # NullId
                        THEN [owner |-> "nodeKey", key |-> names.nodeId,
                              name |-> names.portName]
                        ELSE [owner |-> "edgeKey", key |-> names.edgeId,
                              name |-> names.portName]
    /\ names.phase # "given" =>
          \A t \in Triples :
              t # GivenTriple => port_name(t[1], t[2], t[3]) # names.portname

====
